---- MODULE Spec2Model ----
(***************************************************************************)
(* Model of the record aggregation pipeline of Eden_Final.py: the three    *)
(* report generators (NCR Open/Closed, Safety, Housekeeping), the chunked  *)
(* remote aggregation with its local fallback, and the process-local       *)
(* result caches (st.cache_data) that surround them.                       *)
(*                                                                         *)
(* A description is a sequence of tokens: words, numerals and the          *)
(* punctuation marks "-", ",", "&".  White space separates tokens.  Dates  *)
(* are day numbers; NaT is a missing date and NaN a missing number.        *)
(***************************************************************************)
EXTENDS Integers, Sequences, FiniteSets, TLC

\* ------------------------------------------------------------------ bounds
MaxRows == 2
MaxChunkSize == 2
MaxRuns == 2

\* ------------------------------------------------------- program constants
\* Safety and Housekeeping fix chunk_size = 10; the model scales it to 2 so
\* that a table of MaxRows rows spans more than one chunk.
chunk_size_hs == 2
NCR_AGE_DAYS == 21
HS_AGE_DAYS == 7
TODAY == 60

\* Dates and day counts are natural numbers from 1; the values below stand
\* for a missing date (NaT), a missing number (NaN), an argument left at its
\* default (None, falsy) and a string pandas cannot parse as a date.
None == 0
NaT == -1
NaN == -2
BadDate == -3

\* ------------------------------------------------------------ small helpers
Range(s) == {s[k] : k \in DOMAIN s}

Put(f, k, v) == [x \in (DOMAIN f) \cup {k} |-> IF x = k THEN v ELSE f[x]]

EmptyMap == [x \in {} |-> 0]

Get(f, k, default) == IF k \in DOMAIN f THEN f[k] ELSE default

RECURSIVE SumOver(_, _)
SumOver(f, S) ==
    IF S = {} THEN 0
    ELSE LET x == CHOOSE y \in S : TRUE IN f[x] + SumOver(f, S \ {x})

\* list(set(xs)): the distinct elements of xs, in the order Python's set
\* iteration gives them; the model takes first-occurrence order.
RECURSIVE ListOfSet(_)
ListOfSet(s) ==
    IF s = <<>> THEN <<>>
    ELSE LET r == ListOfSet(SubSeq(s, 1, Len(s) - 1))
             x == s[Len(s)]
         IN IF x \in Range(r) THEN r ELSE Append(r, x)

\* ------------------------------------------------------------- numerals
NumTok == {"1", "2", "3", "4", "5", "6", "30", "60"}
NumVal(t) == CASE t = "1" -> 1 [] t = "2" -> 2 [] t = "3" -> 3 [] t = "4" -> 4
               [] t = "5" -> 5 [] t = "6" -> 6 [] t = "30" -> 30
               [] t = "60" -> 60
\* str.zfill(2)
zfill2(t) == IF t \in {"1", "2", "3", "4", "5", "6"} THEN "0" \o t ELSE t
IsNum(t) == t \in NumTok
\* the numeral without its last digit, "" for a numeral of one digit
NumPrefix(t) == CASE t = "30" -> "3" [] t = "60" -> "6" [] OTHER -> ""

\* --------------------------------------------------------- text classifier
HasPhrase(d, a, b) == \E p \in 1..(Len(d) - 1) : d[p] = a /\ d[p + 1] = b

\* position of the numeral of a match of (tower|t)\s*-?\s*(\d+) starting at p,
\* or 0 when the pattern does not match there
TowerNumAt(d, p) ==
    IF p > Len(d) \/ d[p] \notin {"tower", "t"} THEN 0
    ELSE IF p + 1 <= Len(d) /\ IsNum(d[p + 1]) THEN p + 1
    ELSE IF p + 2 <= Len(d) /\ d[p + 1] = "-" /\ IsNum(d[p + 2]) THEN p + 2
    ELSE 0

tower_matches(d) == {p \in 1..Len(d) : TowerNumAt(d, p) # 0}

\* position of the second numeral of a match of
\* (tower|t)\s*-?\s*(\d+)\s*([,&]|and)\s*(tower|t)?\s*-?\s*(\d+) starting at
\* p, or 0
SecondTowerAt(d, p) ==
    LET n == TowerNumAt(d, p)
        q == n + 2
    IN IF n = 0 \/ n + 1 > Len(d) \/ d[n + 1] \notin {",", "&", "and"} THEN 0
       ELSE IF q <= Len(d) /\ IsNum(d[q]) THEN q
       ELSE IF q + 1 <= Len(d) /\ d[q] = "-" /\ IsNum(d[q + 1]) THEN q + 1
       ELSE IF TowerNumAt(d, q) # 0 THEN TowerNumAt(d, q)
       ELSE 0

multiple_tower_pattern(d) == {p \in 1..Len(d) : SecondTowerAt(d, p) # 0}

MinOf(S) == CHOOSE x \in S : \A y \in S : x <= y
MaxOf(S) == CHOOSE x \in S : \A y \in S : x >= y

\* ncr_tower with the "common area" rule moved before the "flat no" rule
ncr_tower_common_first(d) ==
    IF HasPhrase(d, "eden", "clubhouse") \/ HasPhrase(d, "eden", "club")
       \/ (\E p \in 1..(Len(d) - 2) :
              d[p] = "eden" /\ d[p + 1] = "-" /\ d[p + 2] = "clubhouse")
      THEN "Eden-Club"
    ELSE IF multiple_tower_pattern(d) # {}
      THEN LET p == MinOf(multiple_tower_pattern(d))
           IN "Eden-Tower-" \o zfill2(d[TowerNumAt(d, p)]) \o "-"
                 \o zfill2(d[SecondTowerAt(d, p)]) \o "-CommonArea"
    ELSE IF HasPhrase(d, "common", "area") \/ tower_matches(d) = {}
      THEN "Common_Area"
    ELSE "Eden-Tower-" \o zfill2(d[TowerNumAt(d, MinOf(tower_matches(d)))])

\* Tower categorization of the NCR normalizer
ncr_tower(d) ==
    IF HasPhrase(d, "eden", "clubhouse") \/ HasPhrase(d, "eden", "club")
       \/ (\E p \in 1..(Len(d) - 2) :
              d[p] = "eden" /\ d[p + 1] = "-" /\ d[p + 2] = "clubhouse")
      THEN "Eden-Club"
    ELSE IF multiple_tower_pattern(d) # {}
      THEN LET p == MinOf(multiple_tower_pattern(d))
           IN "Eden-Tower-" \o zfill2(d[TowerNumAt(d, p)]) \o "-"
                 \o zfill2(d[SecondTowerAt(d, p)]) \o "-CommonArea"
    ELSE IF HasPhrase(d, "flat", "no") /\ tower_matches(d) # {}
      THEN "Eden-Tower-" \o zfill2(d[TowerNumAt(d, MinOf(tower_matches(d)))])
    ELSE IF HasPhrase(d, "common", "area") \/ tower_matches(d) = {}
      THEN "Common_Area"
    ELSE "Eden-Tower-" \o zfill2(d[TowerNumAt(d, MinOf(tower_matches(d)))])

\* numeral of a match of (?:pour|p)[-\s]*(\d+) starting at p, or 0
PourNumAt(d, p) ==
    IF p > Len(d) \/ d[p] \notin {"pour", "p"} THEN 0
    ELSE IF p + 1 <= Len(d) /\ IsNum(d[p + 1]) THEN p + 1
    ELSE IF p + 2 <= Len(d) /\ d[p + 1] = "-" /\ IsNum(d[p + 2]) THEN p + 2
    ELSE 0

\* end numeral of a range match (?:pour|p)[-\s]*(\d+)[-\s]*(?:to|-)[-\s]*(\d+)
RangeEndAt(d, p) ==
    LET n == PourNumAt(d, p)
    IN IF n = 0 \/ n + 2 > Len(d) THEN 0
       ELSE IF d[n + 1] \in {"to", "-"} /\ IsNum(d[n + 2]) THEN n + 2
       ELSE 0

range_pours(d) ==
    UNION {LET a == NumVal(d[PourNumAt(d, p)])
               b == NumVal(d[RangeEndAt(d, p)])
           IN IF a <= b /\ b - a <= 20 THEN a..b ELSE {}
           : p \in {q \in 1..Len(d) : RangeEndAt(d, q) # 0}}

\* tokens of the run [0-9,\s&and]+ that follows pour|p at position p
RECURSIVE ListRun(_, _)
ListRun(d, p) ==
    IF p > Len(d) \/ ~(IsNum(d[p]) \/ d[p] \in {",", "&", "and"}) THEN {}
    ELSE (IF IsNum(d[p]) THEN {NumVal(d[p])} ELSE {}) \cup ListRun(d, p + 1)

list_pours(d) ==
    {n \in UNION {ListRun(d, IF d[p + 1] = "-" THEN p + 2 ELSE p + 1)
                  : p \in {q \in 1..(Len(d) - 1) : d[q] \in {"pour", "p"}}}
       : n <= 50}

\* the numeral matched by (?:pour|p)[-\s]*(\d+)(?!\s*(?:to|-)\s*\d+) at p, or
\* "": when the numeral is followed by "to" or "-" and a numeral, the
\* lookahead rejects it and \d+ backtracks to the numeral without its last
\* digit, which no "to" follows
IndividualAt(d, p) ==
    IF PourNumAt(d, p) = 0 THEN ""
    ELSE IF RangeEndAt(d, p) = 0 THEN d[PourNumAt(d, p)]
    ELSE NumPrefix(d[PourNumAt(d, p)])

individual_pours(d) ==
    {n \in {NumVal(IndividualAt(d, p)) :
               p \in {q \in 1..Len(d) : IndividualAt(d, q) # ""}}
       : n <= 50}

\* pour_numbers without the short-circuit of the "common area|flat no" rule
pour_numbers_no_common_rule(d) ==
    IF range_pours(d) # {} THEN range_pours(d)
    ELSE IF list_pours(d) # {} THEN list_pours(d)
    ELSE individual_pours(d)

\* pour_numbers with the three tiers added up instead of the first that
\* yields any
pour_numbers_all_tiers(d) ==
    IF HasPhrase(d, "common", "area") \/ HasPhrase(d, "flat", "no") THEN {}
    ELSE range_pours(d) \cup list_pours(d) \cup individual_pours(d)

\* the pour numbers of a description; {} stands for ["Common"]
pour_numbers(d) ==
    IF HasPhrase(d, "common", "area") \/ HasPhrase(d, "flat", "no") THEN {}
    ELSE IF range_pours(d) # {} THEN range_pours(d)
    ELSE IF list_pours(d) # {} THEN list_pours(d)
    ELSE individual_pours(d)

PourLabel(n) == CASE n = 1 -> "P1" [] n = 2 -> "P2" [] n = 3 -> "P3"
                  [] n = 4 -> "P4" [] n = 5 -> "P5" [] n = 6 -> "P6"
                  [] n = 30 -> "P30" [] n = 60 -> "P60"

\* sorted(list(pours)) orders the labels as strings: "P30" sorts before "P4"
StrRank(n) == CASE n = 1 -> 1 [] n = 2 -> 2 [] n = 3 -> 3 [] n = 30 -> 4
                [] n = 4 -> 5 [] n = 5 -> 6 [] n = 6 -> 7 [] n = 60 -> 8

RECURSIVE SortedLabels(_)
SortedLabels(S) ==
    IF S = {} THEN <<>>
    ELSE LET m == CHOOSE x \in S : \A y \in S : StrRank(x) <= StrRank(y)
         IN <<PourLabel(m)>> \o SortedLabels(S \ {m})

extract_pours(d) ==
    IF pour_numbers(d) = {} THEN <<"Common">> ELSE SortedLabels(pour_numbers(d))

\* A discipline tag is a sequence of characters.
Contains(s, pat) ==
    \E k \in 0..(Len(s) - Len(pat)) : SubSeq(s, k + 1, k + Len(pat)) = pat

LowerChar(c) ==
    CASE c = "H" -> "h" [] c = "S" -> "s" [] c = "E" -> "e" [] c = "C" -> "c"
      [] c = "W" -> "w" [] c = "M" -> "m" [] c = "P" -> "p" [] c = "F" -> "f"
      [] c = "N" -> "n" [] OTHER -> c

lower(s) == [k \in 1..Len(s) |-> LowerChar(s[k])]

RECURSIVE strip(_)
strip(s) ==
    IF s = <<>> THEN s
    ELSE IF Head(s) = " " THEN strip(Tail(s))
    ELSE IF s[Len(s)] = " " THEN strip(SubSeq(s, 1, Len(s) - 1))
    ELSE s

\* discipline_category with the test for "structure" or "sw" moved before
\* the test for "hse"
discipline_category_sw_first(tag) ==
    LET discipline == lower(strip(tag))
    IN IF discipline = <<"n", "o", "n", "e">> \/ discipline = <<>> THEN "drop"
       ELSE IF Contains(discipline, <<"s", "t", "r", "u", "c", "t", "u", "r", "e">>)
               \/ Contains(discipline, <<"s", "w">>) THEN "SW"
       ELSE IF Contains(discipline, <<"h", "s", "e">>) THEN "HSE"
       ELSE IF Contains(discipline, <<"c", "i", "v", "i", "l">>)
               \/ Contains(discipline, <<"f", "i", "n", "i", "s", "h", "i", "n", "g">>)
               \/ Contains(discipline, <<"f", "w">>) THEN "FW"
       ELSE "MEP"

\* Discipline_Category of a discipline tag; "drop" when the record is skipped
discipline_category(tag) ==
    LET discipline == lower(strip(tag))
    IN IF discipline = <<"n", "o", "n", "e">> \/ discipline = <<>> THEN "drop"
       ELSE IF Contains(discipline, <<"h", "s", "e">>) THEN "HSE"
       ELSE IF Contains(discipline, <<"s", "t", "r", "u", "c", "t", "u", "r", "e">>)
               \/ Contains(discipline, <<"s", "w">>) THEN "SW"
       ELSE IF Contains(discipline, <<"c", "i", "v", "i", "l">>)
               \/ Contains(discipline, <<"f", "i", "n", "i", "s", "h", "i", "n", "g">>)
               \/ Contains(discipline, <<"f", "w">>) THEN "FW"
       ELSE "MEP"

\* keyword tests of the Housekeeping and Safety generators, on tokens
housekeeping_keywords == {"housekeeping", "cleaning", "garbage", "debris", "dust"}
is_housekeeping_record(d) == \E p \in 1..Len(d) : d[p] \in housekeeping_keywords

safety_keywords == {"barricading", "tank", "helmet", "lifeline", "scaffold"}
is_safety_record(d) == \E p \in 1..Len(d) : d[p] \in safety_keywords

\* normalize_site_name of the Safety generator: a site name, or a pair of
\* site names for a combined tower common area
TowerCommonAt(d, p) ==
    p + 3 <= Len(d) /\ d[p] = "tower" /\ d[p + 1] = "-" /\ IsNum(d[p + 2])
    /\ d[p + 3] = "-"
    /\ \/ p + 4 <= Len(d) /\ d[p + 4] = "commonarea"
       \/ p + 6 <= Len(d) /\ IsNum(d[p + 4]) /\ d[p + 5] = "-"
          /\ d[p + 6] = "commonarea"

normalize_site_name(d) ==
    LET tc == {p \in 1..Len(d) : TowerCommonAt(d, p)}
    IN IF tc # {}
         THEN LET p == MinOf(tc)
              IN IF d[p + 4] = "commonarea"
                   THEN <<"Eden-Tower " \o zfill2(d[p + 2])>>
                   ELSE <<"Eden-Tower " \o zfill2(d[p + 2]),
                          "Eden-Tower " \o zfill2(d[p + 4])>>
       ELSE IF (\E p \in 1..Len(d) : d[p] = "commonarea")
               \/ HasPhrase(d, "common", "area") THEN <<"Common_Area">>
       ELSE IF tower_matches(d) # {}
         THEN <<"Eden-Tower " \o zfill2(d[TowerNumAt(d, MinOf(tower_matches(d)))])>>
       ELSE <<"Common_Area">>

\* Tower of the Housekeeping generator
housekeeping_tower(d) ==
    IF tower_matches(d) # {}
      THEN "Eden-Tower" \o zfill2(d[TowerNumAt(d, MinOf(tower_matches(d)))])
      ELSE "Common_Area"

\* ------------------------------------------------------------------ inputs
DescT4P3 == <<"tower", "4", "pour", "3", "crack">>
DescCommonDust == <<"common", "area", "dust">>
DescT5T6 == <<"t", "5", "&", "t", "6", "helmet">>
DescFan == <<"tower", "-", "4", "-", "5", "-", "commonarea", "helmet">>

TagHSE == <<"H", "S", "E">>
TagStructure == <<"S", "t", "r", "u", "c", "t", "u", "r", "e">>
TagCivil == <<"C", "i", "v", "i", "l">>
TagHSESW == <<"H", "S", "E", " ", "S", "W">>

Row(d, tag, st, cr, cl, days) ==
    [Description |-> d, Discipline |-> tag, Status |-> st, Created |-> cr,
     Close |-> cl, Days |-> days]

RowPool ==
    { Row(DescT4P3, TagStructure, "Closed", 1, 30, 29),
      Row(DescT4P3, TagStructure, "Open", 1, NaT, NaN),
      Row(DescCommonDust, TagHSE, "Closed", 1, 30, 29),
      Row(DescCommonDust, TagHSE, "Open", 1, NaT, NaN),
      Row(DescT5T6, TagHSE, "Open", 1, 5, 4),
      Row(DescFan, TagHSE, "Closed", 1, 30, 29),
      Row(DescCommonDust, TagHSESW, "Closed", 1, 30, 29),
      Row(DescT5T6, TagCivil, "Closed", 20, 30, 10),
      Row(DescT5T6, TagCivil, "Closed", 1, 30, 29) }

AllCols == {"Days", "Created Date (WET)", "Expected Close Date (WET)",
            "Description", "Status", "Discipline"}

SeqsUpTo(S, n) == UNION {[1..k -> S] : k \in 0..n}

\* the tables a caller can pass: None, or a table with its columns
Tables ==
    {[isNone |-> TRUE, cols |-> {}, rows |-> <<>>]}
    \cup {[isNone |-> FALSE, cols |-> AllCols, rows |-> r] :
            r \in SeqsUpTo(RowPool, MaxRows)}
    \cup {[isNone |-> FALSE, cols |-> AllCols \ {c}, rows |-> r] :
            c \in {"Status", "Created Date (WET)", "Expected Close Date (WET)"},
            r \in SeqsUpTo(RowPool, 1)}

\* (report_type, start_date, end_date, until_date)
ArgPool ==
    { <<"Closed", None, None, None>>, <<"Closed", 1, 40, None>>,
      <<"Closed", 10, 40, None>>, <<"Closed", 1, 25, None>>,
      <<"Closed", BadDate, None, None>>,
      <<"Open", None, None, None>>, <<"Open", None, None, 50>>,
      <<"Open", None, None, BadDate>>, <<"Other", None, None, None>> }


\* ------------------------------------------------------------------- state
VARIABLES
    fn,              \* the generator called: "ncr", "safety", "housekeeping"
    df,              \* its arguments
    report_type,
    start_date,
    end_date,
    until_date,
    debug_bypass_api,
    pc,              \* "call", "chunks", "done"; "scan", "scanned" while the
                     \* text of one response is handled
    cleaned_data,    \* the normalized list handed to chunking
    chunk_size,
    i,               \* 1-based index of the first record of the next chunk
    all_results,     \* the accumulator: [Sites, Grand_Total]
    ret,             \* the payload returned to the caller
    token_requests,  \* calls of get_access_token by the current call
    chunks_sent,     \* chunks posted to the remote service by the current call
    handled,         \* per chunk of the current call, how it was handled
    local_cache,     \* st.cache_data of process_chunk_locally: argument keys
    gen_cache,       \* st.cache_data of the generators: <<arguments, payload>>
    runs,            \* generator calls made so far in this process
    nocache_results, \* the accumulator when every call is executed
    attempts,        \* requests of the current chunk that the HTTP adapter
                     \* retried: their number and the outcome of the last
    generated_text,  \* the text of a response of the remote service
    json_str,        \* what response handling extracted from generated_text
    excel,           \* the spreadsheet function called, "none" before
    all_reports,     \* its argument: the aggregates to report
    workbook         \* the sheets it wrote

vars == <<fn, df, report_type, start_date, end_date, until_date,
          debug_bypass_api, pc, cleaned_data, chunk_size, i, all_results, ret,
          token_requests, chunks_sent, handled, local_cache, gen_cache, runs,
          nocache_results, attempts, generated_text, json_str, excel,
          all_reports, workbook>>

\* no request of the current chunk has been retried
NoAttempt == [n |-> 0, last |-> "none"]

\* json_str = None, and the None that clean_and_parse_json returns
NoJson == <<>>

\* no spreadsheet function has been called
NoReports == [none |-> TRUE]
NoWorkbook == [none |-> TRUE]

\* ------------------------------------------------------------- aggregates
EmptyResults == [Sites |-> EmptyMap, Grand_Total |-> 0]

\* the bucket a site starts with in the NCR path
NewSite ==
    [Descriptions |-> <<>>, Created |-> <<>>, Close |-> <<>>, Status |-> <<>>,
     Discipline |-> <<>>, Pours |-> <<>>, SW |-> 0, FW |-> 0, MEP |-> 0,
     Total |-> 0, PoursCount |-> EmptyMap]

\* the bucket a site starts with in the Safety and Housekeeping paths
NewCountSite ==
    [Count |-> 0, Descriptions |-> <<>>, Created |-> <<>>, Close |-> <<>>,
     Status |-> <<>>]

RECURSIVE CountPours(_, _)
CountPours(pc0, pours) ==
    IF pours = <<>> THEN pc0
    ELSE CountPours(Put(pc0, Head(pours), Get(pc0, Head(pours), 0) + 1),
                    Tail(pours))

\* one iteration of the loop of process_chunk_locally
local_add(res, record) ==
    LET tower == record.Tower
        b0 == Get(res.Sites, tower, NewSite)
        cat == record.Discipline_Category
        b1 == [b0 EXCEPT
                 !.Descriptions = Append(@, record.Description),
                 !.Created = Append(@, record.Created),
                 !.Close = Append(@, record.Close),
                 !.Status = Append(@, record.Status),
                 !.Discipline = Append(@, record.Discipline),
                 !.Pours = Append(@, record.Pours),
                 !.SW = IF cat = "SW" THEN @ + 1 ELSE @,
                 !.FW = IF cat = "FW" THEN @ + 1 ELSE @,
                 !.MEP = IF cat = "MEP" THEN @ + 1 ELSE @,
                 !.Total = @ + 1,
                 !.PoursCount = CountPours(@, record.Pours)]
    IN [Sites |-> Put(res.Sites, tower, b1),
        Grand_Total |-> res.Grand_Total + 1]

\* the body of process_chunk_locally, executed
RECURSIVE process_chunk_locally(_, _)
process_chunk_locally(chunk, res) ==
    IF chunk = <<>> THEN res
    ELSE process_chunk_locally(Tail(chunk), local_add(res, Head(chunk)))


\* ----------------------------------------------------------------- payloads
Error(msg) == [error |-> msg]
IsError(payload) == "error" \in DOMAIN payload
IsAggregate(payload) == "Sites" \in DOMAIN payload
Pending == [pending |-> TRUE]

\* ----------------------------------------------------------- NCR normalizer
NotNa(x) == x >= 0

CreatedDates(rows) == {rows[k].Created : k \in DOMAIN rows} \ {NaT}
CloseDates(rows) == {rows[k].Close : k \in DOMAIN rows} \ {NaT}

\* df['Created Date (WET)'].min() and df['Expected Close Date (WET)'].max()
column_min(S) == IF S = {} THEN NaT ELSE MinOf(S)
column_max(S) == IF S = {} THEN NaT ELSE MaxOf(S)

\* the rows kept by the filter of generate_ncr_report_for_eden
ncr_filter(rows, rt, sd, ed, ud) ==
    LET rows0 == SelectSeq(rows, LAMBDA r : NotNa(r.Created))
        start == IF sd # None THEN sd ELSE column_min(CreatedDates(rows0))
        end == IF ed # None THEN ed ELSE column_max(CloseDates(rows0))
    IN IF rt = "Closed"
         THEN SelectSeq(rows0, LAMBDA r :
                 /\ NotNa(r.Close)
                 /\ r.Status = "Closed"
                 /\ NotNa(start) /\ r.Created >= start
                 /\ NotNa(end) /\ r.Created <= end
                 /\ NotNa(r.Days) /\ r.Days > NCR_AGE_DAYS)
         ELSE SelectSeq(rows0, LAMBDA r :
                 /\ r.Status = "Open"
                 /\ ud - r.Created > NCR_AGE_DAYS)

\* the cleaned_record of one filtered row
ncr_cleaned_record(r, rt, ud) ==
    [Description |-> r.Description,
     Discipline |-> r.Discipline,
     Created |-> r.Created,
     Close |-> r.Close,
     Status |-> r.Status,
     Days |-> IF NotNa(r.Days) THEN r.Days ELSE 0,
     Days_From_Today |-> IF rt = "Open" THEN ud - r.Created ELSE NaN,
     Pours |-> extract_pours(r.Description),
     Discipline_Category |-> discipline_category(r.Discipline),
     Tower |-> ncr_tower(r.Description)]

\* the loop over processed_data: rows with an empty description, an empty or
\* "none" discipline or an HSE discipline are skipped
RECURSIVE ncr_clean(_, _, _)
ncr_clean(rows, rt, ud) ==
    IF rows = <<>> THEN <<>>
    ELSE LET r == Head(rows)
             rest == ncr_clean(Tail(rows), rt, ud)
         IN IF r.Description = <<>>
               \/ discipline_category(r.Discipline) \in {"drop", "HSE"}
              THEN rest
              ELSE <<ncr_cleaned_record(r, rt, ud)>> \o rest

\* "Remove duplicates": {tuple(sorted(d.items())) for d in cleaned_data}.
\* Every cleaned record holds its Pours as a list, a tuple holding a list is
\* unhashable, so building the set raises TypeError for any non-empty
\* cleaned_data; the except clause keeps the list as it is.
dedup_raises(data) == data # <<>>

remove_duplicates(data) == IF dedup_raises(data) THEN data ELSE ListOfSet(data)

\* ncr_input_error without the check of the required columns
ncr_input_error_no_column_check(d, rt, sd, ed, ud) ==
    IF d.isNone \/ d.rows = <<>> THEN "Empty DataFrame"
    ELSE IF rt \notin {"Open", "Closed"} THEN "Invalid report_type"
    ELSE IF rt = "Closed" /\ (sd = BadDate \/ ed = BadDate)
      THEN "Invalid date range"
    ELSE IF rt = "Open" /\ ud = None THEN "Open Until Date is required"
    ELSE IF rt = "Open" /\ ud = BadDate THEN "Invalid Open Until Date"
    ELSE ""

\* the error with which generate_ncr_report_for_eden rejects its arguments
\* before it filters, or "" when it accepts them
ncr_input_error(d, rt, sd, ed, ud) ==
    IF d.isNone \/ d.rows = <<>> THEN "Empty DataFrame"
    ELSE IF rt \notin {"Open", "Closed"} THEN "Invalid report_type"
    ELSE IF ~({"Created Date (WET)", "Status"} \subseteq d.cols)
      THEN "Missing columns"
    ELSE IF rt = "Closed" /\ "Expected Close Date (WET)" \notin d.cols
      THEN "Missing Expected Close Date column"
    ELSE IF rt = "Closed" /\ (sd = BadDate \/ ed = BadDate)
      THEN "Invalid date range"
    ELSE IF rt = "Open" /\ ud = None THEN "Open Until Date is required"
    ELSE IF rt = "Open" /\ ud = BadDate THEN "Invalid Open Until Date"
    ELSE ""

\* the outcome of the part of generate_ncr_report_for_eden that precedes the
\* access token: an error payload, or the list handed to chunking
ncr_prepare(d, rt, sd, ed, ud) ==
    IF ncr_input_error(d, rt, sd, ed, ud) # ""
      THEN [err |-> ncr_input_error(d, rt, sd, ed, ud), data |-> <<>>]
    ELSE IF ncr_filter(d.rows, rt, sd, ed, ud) = <<>>
      THEN [err |-> "No records found with duration > 21 days", data |-> <<>>]
    ELSE [err |-> "",
          data |-> remove_duplicates(
                     ncr_clean(ncr_filter(d.rows, rt, sd, ed, ud), rt, ud))]

\* ------------------------------------------------------------------ caches
CallKey == <<fn, df, report_type, start_date, end_date, until_date,
             debug_bypass_api>>

CachedCalls == {e[1] : e \in gen_cache}

\* the generator returns payload: st.cache_data stores it under the call's
\* arguments
Return(payload) ==
    /\ ret' = payload
    /\ pc' = "done"
    /\ gen_cache' = gen_cache \cup {<<CallKey, payload>>}

\* a call whose arguments are cached returns the stored payload and runs
\* nothing of the generator
CallCached ==
    /\ UNCHANGED <<generated_text, json_str, excel, all_reports, workbook>>
    /\ pc = "call"
    /\ CallKey \in CachedCalls
    /\ \E e \in gen_cache : e[1] = CallKey /\ ret' = e[2]
    /\ pc' = "done"
    /\ UNCHANGED <<attempts, fn, df, report_type, start_date, end_date, until_date,
                   debug_bypass_api, cleaned_data, chunk_size, i, all_results,
                   token_requests, chunks_sent, handled, local_cache,
                   gen_cache, runs, nocache_results>>

\* generate_ncr_report_for_eden up to the chunk loop
NcrCall ==
    /\ UNCHANGED <<generated_text, json_str, excel, all_reports, workbook>>
    /\ pc = "call" /\ fn = "ncr"
    /\ CallKey \notin CachedCalls
    /\ LET prep == ncr_prepare(df, report_type, start_date, end_date, until_date)
       IN IF prep.err # ""
            THEN /\ Return(Error(prep.err))
                 /\ UNCHANGED <<cleaned_data, i, all_results, token_requests,
                                nocache_results>>
          ELSE IF prep.data = <<>>
            THEN /\ Return(EmptyResults)
                 /\ cleaned_data' = <<>>
                 /\ UNCHANGED <<i, all_results, token_requests, nocache_results>>
          ELSE /\ token_requests' = token_requests + 1
               /\ cleaned_data' = prep.data
               /\ \E access_token \in BOOLEAN :
                    IF ~access_token
                      THEN /\ Return(Error("Failed to obtain access token"))
                           /\ UNCHANGED <<i, all_results, nocache_results>>
                    ELSE IF chunk_size = 0
                      \* range(0, len(cleaned_data), 0) raises ValueError,
                      \* which the outer handler turns into an error payload
                      THEN /\ Return(Error("Unexpected Error"))
                           /\ all_results' = EmptyResults
                           /\ nocache_results' = EmptyResults
                           /\ UNCHANGED i
                      ELSE /\ pc' = "chunks"
                           /\ i' = 1
                           /\ all_results' = EmptyResults
                           /\ nocache_results' = EmptyResults
                           /\ UNCHANGED <<ret, gen_cache>>
    /\ UNCHANGED <<attempts, fn, df, report_type, start_date, end_date, until_date,
                   debug_bypass_api, chunk_size, chunks_sent, handled,
                   local_cache, runs>>


\* ------------------------------------------------------------ chunk loop
\* chunk = cleaned_data[i:i + chunk_size]
Chunk == SubSeq(cleaned_data, i, IF i + chunk_size - 1 < Len(cleaned_data)
                                   THEN i + chunk_size - 1
                                   ELSE Len(cleaned_data))

\* range(0, len(cleaned_data), chunk_size) has an index left: with a negative
\* step the range is empty
InLoop(f) ==
    pc = "chunks" /\ fn = f /\ chunk_size > 0 /\ i <= Len(cleaned_data)

\* a loop that moves on by two chunks
NextChunkSkipping ==
    /\ i' = i + 2 * chunk_size
    /\ chunks_sent' = chunks_sent + 1
    /\ attempts' = NoAttempt

NextChunk ==
    /\ i' = i + chunk_size
    /\ chunks_sent' = chunks_sent + 1
    /\ attempts' = NoAttempt

\* a merge that replaces the lists of a site instead of extending them
merge_site_replacing(res, site, data) ==
    LET b0 == Get(res.Sites, site, NewSite)
        b1 == [b0 EXCEPT
                 !.Descriptions = data.Descriptions,
                 !.Created = data.Created,
                 !.Close = data.Close,
                 !.Status = data.Status,
                 !.Discipline = data.Discipline,
                 !.Pours = data.Pours,
                 !.SW = @ + data.SW,
                 !.FW = @ + data.FW,
                 !.MEP = @ + data.MEP,
                 !.Total = @ + data.Total,
                 !.PoursCount =
                     [k \in (DOMAIN @) \cup (DOMAIN data.PoursCount) |->
                         Get(@, k, 0) + Get(data.PoursCount, k, 0)]]
    IN [res EXCEPT !.Sites = Put(res.Sites, site, b1)]

\* merge of one site of a parsed NCR response into the accumulator
merge_site(res, site, data) ==
    LET b0 == Get(res.Sites, site, NewSite)
        b1 == [b0 EXCEPT
                 !.Descriptions = @ \o data.Descriptions,
                 !.Created = @ \o data.Created,
                 !.Close = @ \o data.Close,
                 !.Status = @ \o data.Status,
                 !.Discipline = @ \o data.Discipline,
                 !.Pours = @ \o data.Pours,
                 !.SW = @ + data.SW,
                 !.FW = @ + data.FW,
                 !.MEP = @ + data.MEP,
                 !.Total = @ + data.Total,
                 !.PoursCount =
                     [k \in (DOMAIN @) \cup (DOMAIN data.PoursCount) |->
                         Get(@, k, 0) + Get(data.PoursCount, k, 0)]]
    IN [res EXCEPT !.Sites = Put(res.Sites, site, b1)]

\* the loop over chunk_result["Sites"].items(), for the sites in S
RECURSIVE merge_sites(_, _, _)
merge_sites(res, sites, S) ==
    IF S = {} THEN res
    ELSE LET site == CHOOSE x \in S : TRUE
         IN merge_sites(merge_site(res, site, sites[site]), sites, S \ {site})

\* the buckets a correct remote service returns for a chunk
FaithfulSites(chunk) == process_chunk_locally(chunk, EmptyResults).Sites

\* the "Sites" objects the remote service may return for a chunk: the
\* correct buckets, buckets with a wrong Total, or no buckets at all
RemoteSites(chunk) ==
    LET F == FaithfulSites(chunk)
    IN {F, EmptyMap} \cup {[F EXCEPT ![s].Total = @ + 1] : s \in DOMAIN F}

\* a call of process_chunk_locally through st.cache_data: with the arguments
\* already cached the body is not executed and all_results stays as it is
LocalKey(chunk, res) == <<chunk, res, report_type>>

cached_process_chunk_locally(chunk, res) ==
    IF LocalKey(chunk, res) \in local_cache THEN res
    ELSE process_chunk_locally(chunk, res)

\* Retry(total=3, ...) of the HTTP adapter: the number of retries allowed
\* for one request
RETRY_TOTAL == 3

\* status_forcelist: [429, 500, 502, 503, 504] in the NCR generator, and 408
\* as well in the Safety and Housekeeping generators
status_forcelist(f) ==
    {"429", "500", "502", "503", "504"}
    \cup (IF f = "ncr" THEN {} ELSE {"408"})

\* what the remote end answers to one request, other than a response the
\* generator handles: a status, or no response at all
ServerOutcomes == {"503", "408", "ConnectionError"}

\* Retry.is_retry and Retry.increment: the adapter sends the request again
\* after a status of status_forcelist and after a connection or read error
\* (POST is in allowed_methods), while retries are left
is_retry(f, outcome) ==
    outcome \in status_forcelist(f) \/ outcome = "ConnectionError"

\* one request of the current chunk is answered with an outcome the adapter
\* retries: http.post has not returned yet
RequestRetried ==
    /\ UNCHANGED <<generated_text, json_str, excel, all_reports, workbook>>
    /\ InLoop(fn)
    /\ attempts.n < RETRY_TOTAL
    /\ \E outcome \in ServerOutcomes :
         /\ is_retry(fn, outcome)
         /\ attempts' = [n |-> attempts.n + 1, last |-> outcome]
    /\ UNCHANGED <<fn, df, report_type, start_date, end_date, until_date,
                   debug_bypass_api, pc, cleaned_data, chunk_size, i,
                   all_results, ret, token_requests, chunks_sent, handled,
                   local_cache, gen_cache, runs, nocache_results>>

\* status 200, JSON parsed, report_type present, every site merged
NcrChunkMerged ==
    /\ UNCHANGED <<generated_text, json_str, excel, all_reports, workbook>>
    /\ InLoop("ncr")
    /\ \E sites \in RemoteSites(Chunk) :
         /\ all_results' =
              [merge_sites(all_results, sites, DOMAIN sites)
                 EXCEPT !.Grand_Total = @ + Len(Chunk)]
         /\ nocache_results' =
              [merge_sites(nocache_results, sites, DOMAIN sites)
                 EXCEPT !.Grand_Total = @ + Len(Chunk)]
    /\ handled' = Append(handled, [chunk |-> Chunk, by |-> "remote", cause |-> "ok"])
    /\ NextChunk
    /\ UNCHANGED <<fn, df, report_type, start_date, end_date, until_date,
                   debug_bypass_api, pc, cleaned_data, chunk_size, ret,
                   token_requests, local_cache, gen_cache, runs>>

RemoteFailures ==
    {"network error", "timeout", "non-200 status", "no JSON", "malformed JSON",
     "wrong schema"}

\* the remote step fails before anything is merged: process_chunk_locally
NcrChunkFallback ==
    /\ UNCHANGED <<generated_text, json_str, excel, all_reports, workbook>>
    /\ InLoop("ncr")
    /\ \E cause \in RemoteFailures :
         handled' = Append(handled,
            [chunk |-> Chunk, by |-> IF LocalKey(Chunk, all_results) \in local_cache
                      THEN "nothing" ELSE "local",
             cause |-> cause])
    /\ all_results' = cached_process_chunk_locally(Chunk, all_results)
    /\ local_cache' = local_cache \cup {LocalKey(Chunk, all_results)}
    /\ nocache_results' = process_chunk_locally(Chunk, nocache_results)
    /\ NextChunk
    /\ UNCHANGED <<fn, df, report_type, start_date, end_date, until_date,
                   debug_bypass_api, pc, cleaned_data, chunk_size, ret,
                   token_requests, gen_cache, runs>>

\* the accumulator after the merge loop raised at site f, the sites of S
\* merged before it; lists tells whether f's lists were already extended
\* (the exception came from a counter) or not
abandoned_merge(res, sites, S, f, lists) ==
    LET r1 == merge_sites(res, sites, S)
        b0 == Get(r1.Sites, f, NewSite)
        b1 == IF lists
                THEN [b0 EXCEPT
                        !.Descriptions = @ \o sites[f].Descriptions,
                        !.Created = @ \o sites[f].Created,
                        !.Close = @ \o sites[f].Close,
                        !.Status = @ \o sites[f].Status,
                        !.Discipline = @ \o sites[f].Discipline,
                        !.Pours = @ \o sites[f].Pours]
                ELSE b0
    IN [r1 EXCEPT !.Sites = Put(r1.Sites, f, b1)]

\* status 200 and a parsed response with report_type, but a field of site f
\* is missing or ill-typed: the merge loop raises part-way, and the handler
\* of the exception calls process_chunk_locally on the accumulator as it is
NcrChunkAbandoned ==
    /\ UNCHANGED <<generated_text, json_str, excel, all_reports, workbook>>
    /\ InLoop("ncr")
    /\ \E f \in DOMAIN FaithfulSites(Chunk) :
       \E S \in SUBSET (DOMAIN FaithfulSites(Chunk) \ {f}) :
       \E lists \in BOOLEAN :
         LET part == abandoned_merge(all_results, FaithfulSites(Chunk), S, f, lists)
             ncpart == abandoned_merge(nocache_results, FaithfulSites(Chunk), S, f, lists)
         IN /\ all_results' = cached_process_chunk_locally(Chunk, part)
            /\ local_cache' = local_cache \cup {LocalKey(Chunk, part)}
            /\ nocache_results' = process_chunk_locally(Chunk, ncpart)
            /\ handled' = Append(handled,
                 [chunk |-> Chunk, by |-> IF LocalKey(Chunk, part) \in local_cache
                           THEN "partial" ELSE "partial+local",
                  cause |-> "bad field"])
    /\ NextChunk
    /\ UNCHANGED <<fn, df, report_type, start_date, end_date, until_date,
                   debug_bypass_api, pc, cleaned_data, chunk_size, ret,
                   token_requests, gen_cache, runs>>

\* the loop is over: the NCR generator returns the accumulator
NcrFinish ==
    /\ UNCHANGED <<generated_text, json_str, excel, all_reports, workbook>>
    /\ pc = "chunks" /\ fn = "ncr" /\ ~InLoop("ncr")
    /\ Return(all_results)
    /\ UNCHANGED <<attempts, fn, df, report_type, start_date, end_date, until_date,
                   debug_bypass_api, cleaned_data, chunk_size, i, all_results,
                   token_requests, chunks_sent, handled, local_cache, runs,
                   nocache_results>>

\* ------------------------------------- Safety and Housekeeping normalizers
\* pd.to_datetime(x) if x else None
ParsesOrNone(x) == x # BadDate

\* the rows kept by the filter of generate_ncr_Housekeeping_report_for_eden
housekeeping_filter(rows, rt, sd, ed, ud) ==
    IF rt = "Closed"
      THEN SelectSeq(rows, LAMBDA r :
              /\ r.Discipline = TagHSE
              /\ r.Status = "Closed"
              /\ NotNa(r.Days) /\ r.Days > HS_AGE_DAYS
              /\ is_housekeeping_record(r.Description)
              /\ (sd # None /\ ed # None) =>
                    (NotNa(r.Created) /\ r.Created >= sd
                     /\ NotNa(r.Close) /\ r.Close <= ed))
      ELSE SelectSeq(rows, LAMBDA r :
              /\ r.Discipline = TagHSE
              /\ r.Status = "Open"
              /\ NotNa(r.Created)
              /\ is_housekeeping_record(r.Description)
              /\ TODAY - r.Created > HS_AGE_DAYS
              /\ (ud # None) => r.Created <= ud)

\* the rows kept by the filter of generate_ncr_Safety_report_for_eden
safety_filter(rows, rt, sd, ed, ud) ==
    IF rt = "Closed"
      THEN SelectSeq(rows, LAMBDA r :
              /\ (r.Discipline = TagHSE \/ is_safety_record(r.Description))
              /\ r.Status = "Closed"
              /\ NotNa(r.Days) /\ r.Days > HS_AGE_DAYS
              /\ (sd # None /\ ed # None) =>
                    (NotNa(r.Created) /\ r.Created >= sd
                     /\ NotNa(r.Close) /\ r.Close <= ed))
      ELSE SelectSeq(rows, LAMBDA r :
              /\ (r.Discipline = TagHSE \/ is_safety_record(r.Description))
              /\ r.Status = "Open"
              /\ NotNa(r.Created)
              /\ TODAY - r.Created > HS_AGE_DAYS
              /\ r.Created <= (IF ud # None THEN ud ELSE TODAY))

hs_cleaned_record(r, rt, tower) ==
    [Description |-> r.Description,
     Created |-> r.Created,
     Close |-> r.Close,
     Status |-> r.Status,
     Days |-> r.Days,
     Discipline |-> TagHSE,
     Days_From_Today |-> IF rt = "Open" THEN TODAY - r.Created ELSE NaN,
     Tower |-> tower]

\* the loop over processed_data of the Housekeeping generator: one record
\* per distinct non-empty description
RECURSIVE housekeeping_clean(_, _, _)
housekeeping_clean(rows, rt, seen_descriptions) ==
    IF rows = <<>> THEN <<>>
    ELSE LET r == Head(rows)
         IN IF r.Description = <<>> \/ r.Description \in seen_descriptions
              THEN housekeeping_clean(Tail(rows), rt, seen_descriptions)
              ELSE <<hs_cleaned_record(r, rt, housekeeping_tower(r.Description))>>
                   \o housekeeping_clean(Tail(rows), rt,
                                         seen_descriptions \cup {r.Description})

\* the loop over processed_data of the Safety generator: one record per
\* distinct non-empty description and per tower of normalize_site_name
RECURSIVE safety_clean(_, _, _)
safety_clean(rows, rt, seen_descriptions) ==
    IF rows = <<>> THEN <<>>
    ELSE LET r == Head(rows)
             towers == normalize_site_name(r.Description)
         IN IF r.Description = <<>> \/ r.Description \in seen_descriptions
              THEN safety_clean(Tail(rows), rt, seen_descriptions)
              ELSE [k \in 1..Len(towers) |-> hs_cleaned_record(r, rt, towers[k])]
                   \o safety_clean(Tail(rows), rt,
                                   seen_descriptions \cup {r.Description})

\* the condition under which the local fallback of a generator counts a record
hs_counts_record(f, record) ==
    /\ IF f = "safety" THEN is_safety_record(record.Description)
                       ELSE is_housekeeping_record(record.Description)
    /\ \/ NotNa(record.Days) /\ record.Days > HS_AGE_DAYS
       \/ f = "housekeeping" /\ NotNa(record.Days_From_Today)
          /\ record.Days_From_Today > HS_AGE_DAYS
    /\ record.Discipline = TagHSE

\* one iteration of the local fallback loop of Safety and Housekeeping
hs_local_add(f, res, record) ==
    IF ~hs_counts_record(f, record) THEN res
    ELSE LET site == record.Tower
             b0 == Get(res.Sites, site, NewCountSite)
             b1 == [b0 EXCEPT
                      !.Descriptions = Append(@, record.Description),
                      !.Created = Append(@, record.Created),
                      !.Close = Append(@, record.Close),
                      !.Status = Append(@, record.Status),
                      !.Count = @ + 1]
         IN [Sites |-> Put(res.Sites, site, b1),
             Grand_Total |-> res.Grand_Total + 1]

RECURSIVE hs_local(_, _, _)
hs_local(f, chunk, res) ==
    IF chunk = <<>> THEN res
    ELSE hs_local(f, Tail(chunk), hs_local_add(f, res, Head(chunk)))

hs_filter(f, rows, rt, sd, ed, ud) ==
    IF f = "safety" THEN safety_filter(rows, rt, sd, ed, ud)
    ELSE housekeeping_filter(rows, rt, sd, ed, ud)

\* hs_input_error with a missing cutoff date of an Open report made an error
hs_input_error_requires_until(f, d, rt, sd, ed, ud) ==
    LET needClose == \/ f = "safety" /\ rt = "Closed"
                     \/ rt = "Closed" /\ sd # None /\ ed # None
        needCreated == needClose \/ rt # "Closed"
    IN IF ~ParsesOrNone(sd) \/ ~ParsesOrNone(ed) \/ ~ParsesOrNone(ud)
         THEN "Unexpected Error"
       ELSE IF rt = "Open" /\ ud = None THEN "Open Until Date is required"
       ELSE IF d.isNone \/ "Status" \notin d.cols
               \/ (needClose /\ "Expected Close Date (WET)" \notin d.cols)
               \/ (needCreated /\ "Created Date (WET)" \notin d.cols)
         THEN "Unexpected Error"
       ELSE ""

\* the exceptions a Safety or Housekeeping generator raises before its filter
\* is evaluated (an unparseable date, a table that is None, a column the
\* filter reads that is missing), or "" when there is none
hs_input_error(f, d, rt, sd, ed, ud) ==
    LET needClose == \/ f = "safety" /\ rt = "Closed"
                     \/ rt = "Closed" /\ sd # None /\ ed # None
        needCreated == needClose \/ rt # "Closed"
    IN IF ~ParsesOrNone(sd) \/ ~ParsesOrNone(ed) \/ ~ParsesOrNone(ud)
         THEN "Unexpected Error"
       ELSE IF d.isNone \/ "Status" \notin d.cols
               \/ (needClose /\ "Expected Close Date (WET)" \notin d.cols)
               \/ (needCreated /\ "Created Date (WET)" \notin d.cols)
         THEN "Unexpected Error"
       ELSE ""

\* the outcome of a Safety or Housekeeping generator before the access
\* token; an exception reaches the outer handler and becomes an error payload
hs_prepare(f, d, rt, sd, ed, ud) ==
    IF hs_input_error(f, d, rt, sd, ed, ud) # ""
      THEN [err |-> hs_input_error(f, d, rt, sd, ed, ud), data |-> <<>>]
    ELSE IF hs_filter(f, d.rows, rt, sd, ed, ud) = <<>>
      THEN [err |-> "", data |-> <<>>]
    ELSE IF ~({"Created Date (WET)", "Expected Close Date (WET)"} \subseteq d.cols)
      THEN [err |-> "Unexpected Error", data |-> <<>>]
    ELSE [err |-> "",
          data |-> IF f = "safety"
                     THEN safety_clean(hs_filter(f, d.rows, rt, sd, ed, ud), rt, {})
                     ELSE housekeeping_clean(hs_filter(f, d.rows, rt, sd, ed, ud), rt, {})]

\* a Safety or Housekeeping generator up to the chunk loop
HsCall ==
    /\ UNCHANGED <<generated_text, json_str, excel, all_reports, workbook>>
    /\ pc = "call" /\ fn \in {"safety", "housekeeping"}
    /\ CallKey \notin CachedCalls
    /\ LET prep == hs_prepare(fn, df, report_type, start_date, end_date,
                              until_date)
       IN IF prep.err # ""
            THEN /\ Return(Error(prep.err))
                 /\ UNCHANGED <<cleaned_data, i, all_results, token_requests,
                                nocache_results>>
          ELSE IF prep.data = <<>>
            THEN /\ Return(EmptyResults)
                 /\ cleaned_data' = <<>>
                 /\ UNCHANGED <<i, all_results, token_requests, nocache_results>>
          ELSE IF fn = "safety" /\ debug_bypass_api
            THEN /\ Return(hs_local(fn, prep.data, EmptyResults))
                 /\ cleaned_data' = prep.data
                 /\ all_results' = hs_local(fn, prep.data, EmptyResults)
                 /\ nocache_results' = hs_local(fn, prep.data, EmptyResults)
                 /\ UNCHANGED <<i, token_requests>>
          ELSE /\ token_requests' = token_requests + 1
               /\ cleaned_data' = prep.data
               /\ \E access_token \in BOOLEAN :
                    IF ~access_token
                      THEN /\ Return(Error("Failed to obtain access token"))
                           /\ UNCHANGED <<i, all_results, nocache_results>>
                      ELSE /\ pc' = "chunks"
                           /\ i' = 1
                           /\ all_results' = EmptyResults
                           /\ nocache_results' = EmptyResults
                           /\ UNCHANGED <<ret, gen_cache>>
    /\ UNCHANGED <<attempts, fn, df, report_type, start_date, end_date, until_date,
                   debug_bypass_api, chunk_size, chunks_sent, handled,
                   local_cache, runs>>

\* merge of one site of a parsed Safety or Housekeeping response
hs_merge_site(res, site, values) ==
    LET b0 == Get(res.Sites, site, NewCountSite)
        b1 == [b0 EXCEPT
                 !.Descriptions = @ \o values.Descriptions,
                 !.Created = @ \o values.Created,
                 !.Close = @ \o values.Close,
                 !.Status = @ \o values.Status,
                 !.Count = @ + values.Count]
    IN [res EXCEPT !.Sites = Put(res.Sites, site, b1)]

RECURSIVE hs_merge_sites(_, _, _)
hs_merge_sites(res, sites, S) ==
    IF S = {} THEN res
    ELSE LET site == CHOOSE x \in S : TRUE
         IN hs_merge_sites(hs_merge_site(res, site, sites[site]), sites,
                           S \ {site})

\* the merge of a parsed response: every site, then the reported Grand_Total
hs_merge(res, response) ==
    [hs_merge_sites(res, response.Sites, DOMAIN response.Sites)
       EXCEPT !.Grand_Total = @ + response.Grand_Total]

\* the responses the remote service may return for a chunk under the report
\* key: the correct aggregate, one with a wrong or missing Grand_Total, one
\* with a wrong Count
HsRemoteResponses(f, chunk) ==
    LET F == hs_local(f, chunk, EmptyResults)
    IN {F, [F EXCEPT !.Grand_Total = 0], [F EXCEPT !.Grand_Total = @ + 1]}
       \cup {[F EXCEPT !.Sites[s].Count = @ + 1] : s \in DOMAIN F.Sites}

InHsLoop == pc = "chunks" /\ fn \in {"safety", "housekeeping"}
            /\ i <= Len(cleaned_data)

\* status 200, a balanced JSON object that parses and holds the report key
HsChunkMerged ==
    /\ UNCHANGED <<generated_text, json_str, excel, all_reports, workbook>>
    /\ InHsLoop
    /\ \E response \in HsRemoteResponses(fn, Chunk) :
         /\ all_results' = hs_merge(all_results, response)
         /\ nocache_results' = hs_merge(nocache_results, response)
    /\ handled' = Append(handled, [chunk |-> Chunk, by |-> "remote", cause |-> "ok"])
    /\ NextChunk
    /\ UNCHANGED <<fn, df, report_type, start_date, end_date, until_date,
                   debug_bypass_api, pc, cleaned_data, chunk_size, ret,
                   token_requests, local_cache, gen_cache, runs>>

HsRemoteFailures ==
    {"network error", "timeout", "non-200 status", "no JSON", "malformed JSON"}

\* ReadTimeout, RequestException, a status other than 200, no balanced
\* object, JSONDecodeError: the inline local fallback
HsChunkFallback ==
    /\ UNCHANGED <<generated_text, json_str, excel, all_reports, workbook>>
    /\ InHsLoop
    /\ \E cause \in HsRemoteFailures :
         handled' = Append(handled, [chunk |-> Chunk, by |-> "local", cause |-> cause])
    /\ all_results' = hs_local(fn, Chunk, all_results)
    /\ nocache_results' = hs_local(fn, Chunk, nocache_results)
    /\ NextChunk
    /\ UNCHANGED <<fn, df, report_type, start_date, end_date, until_date,
                   debug_bypass_api, pc, cleaned_data, chunk_size, ret,
                   token_requests, local_cache, gen_cache, runs>>

\* a parsed object without the report key: parsed_json.get(key, {}) gives no
\* sites and Grand_Total 0, and nothing else is done for the chunk
HsChunkWrongSchema ==
    /\ UNCHANGED <<generated_text, json_str, excel, all_reports, workbook>>
    /\ InHsLoop
    /\ handled' = Append(handled, [chunk |-> Chunk, by |-> "nothing", cause |-> "wrong schema"])
    /\ NextChunk
    /\ UNCHANGED <<fn, df, report_type, start_date, end_date, until_date,
                   debug_bypass_api, pc, cleaned_data, chunk_size, ret,
                   all_results, nocache_results,
                   token_requests, local_cache, gen_cache, runs>>

\* a parsed object with an ill-typed field (a Count that is a string, a
\* Sites that is a list): the TypeError or AttributeError is no
\* JSONDecodeError, so it reaches the outer handler of the generator
HsChunkBadField ==
    /\ UNCHANGED <<generated_text, json_str, excel, all_reports, workbook>>
    /\ InHsLoop
    /\ handled' = Append(handled, [chunk |-> Chunk, by |-> "nothing", cause |-> "bad field"])
    /\ NextChunk
    /\ Return(Error("Unexpected Error"))
    /\ UNCHANGED <<fn, df, report_type, start_date, end_date, until_date,
                   debug_bypass_api, cleaned_data, chunk_size,
                   all_results, nocache_results,
                   token_requests, local_cache, runs>>

\* list(set(xs)): the distinct elements of xs in the order the iteration of
\* a set gives them, which the hashes of the elements decide: every order
\* is an outcome
list_of_set(xs) ==
    {ys \in [1..Cardinality(Range(xs)) -> Range(xs)] : Range(ys) = Range(xs)}

\* list(set(...)) of the four lists of a site: the outcomes
set_conversion(b) ==
    {[b EXCEPT !.Descriptions = d, !.Created = cr, !.Close = cl, !.Status = st] :
        d \in list_of_set(b.Descriptions), cr \in list_of_set(b.Created),
        cl \in list_of_set(b.Close), st \in list_of_set(b.Status)}

\* the aggregates the set conversion of every site can leave
hs_finalize(res) ==
    {[res EXCEPT !.Sites = sites] :
        sites \in {f \in [DOMAIN res.Sites ->
                            UNION {set_conversion(res.Sites[s]) : s \in DOMAIN res.Sites}] :
                      \A s \in DOMAIN res.Sites : f[s] \in set_conversion(res.Sites[s])}}

\* the loop is over: set conversion of the lists, then return
HsFinish ==
    /\ UNCHANGED <<generated_text, json_str, excel, all_reports, workbook>>
    /\ pc = "chunks" /\ fn \in {"safety", "housekeeping"}
    /\ i > Len(cleaned_data)
    /\ \E final \in hs_finalize(all_results) :
       \E ncfinal \in hs_finalize(nocache_results) :
         /\ nocache_results = all_results => ncfinal = final
         /\ all_results' = final
         /\ nocache_results' = ncfinal
         /\ Return(final)
    /\ UNCHANGED <<attempts, fn, df, report_type, start_date, end_date, until_date,
                   debug_bypass_api, cleaned_data, chunk_size, i,
                   token_requests, chunks_sent, handled, local_cache, runs>>

\* ------------------------------------------------------------ specification
\* the values int(os.getenv("CHUNK_SIZE", 20)) can take: any integer the
\* environment holds
ChunkSizes == (0 - 1)..MaxChunkSize

Fns == {"ncr", "safety", "housekeeping"}

Init ==
    /\ fn \in Fns
    /\ df \in Tables
    /\ \E a \in ArgPool :
         /\ report_type = a[1] /\ start_date = a[2] /\ end_date = a[3]
         /\ until_date = a[4]
    /\ debug_bypass_api \in (IF fn = "safety" THEN BOOLEAN ELSE {FALSE})
    /\ chunk_size \in (IF fn = "ncr" THEN ChunkSizes ELSE {chunk_size_hs})
    /\ pc = "call"
    /\ cleaned_data = <<>>
    /\ i = 1
    /\ all_results = EmptyResults
    /\ nocache_results = EmptyResults
    /\ ret = Pending
    /\ token_requests = 0
    /\ chunks_sent = 0
    /\ handled = <<>>
    /\ local_cache = {}
    /\ gen_cache = {}
    /\ runs = 1
    /\ attempts = NoAttempt
    /\ generated_text = <<>>
    /\ json_str = NoJson
    /\ excel = "none"
    /\ all_reports = NoReports
    /\ workbook = NoWorkbook

\* the first call of a generator in a process: both caches start empty
Next ==
    \/ RequestRetried
    \/ NcrCall
    \/ NcrChunkMerged
    \/ NcrChunkFallback
    \/ NcrChunkAbandoned
    \/ NcrFinish
    \/ HsCall
    \/ HsChunkMerged
    \/ HsChunkFallback
    \/ HsChunkWrongSchema
    \/ HsChunkBadField
    \/ HsFinish

Spec == Init /\ [][Next]_vars

\* ------------------------------------------ several calls in one process
\* The caches of st.cache_data live as long as the process.  A later call
\* of the NCR generator starts from fresh locals and the caches as they are.
CacheRowPool == {Row(DescT4P3, TagStructure, "Closed", 1, 30, 29)}

CacheTables ==
    {[isNone |-> FALSE, cols |-> AllCols, rows |-> r] :
        r \in SeqsUpTo(CacheRowPool, MaxRows)}

CacheArgPool == {<<"Closed", None, None, None>>, <<"Closed", 1, 40, None>>}

InitCache ==
    /\ fn = "ncr"
    /\ df \in CacheTables
    /\ \E a \in CacheArgPool :
         /\ report_type = a[1] /\ start_date = a[2] /\ end_date = a[3]
         /\ until_date = a[4]
    /\ debug_bypass_api = FALSE
    /\ chunk_size \in 1..MaxChunkSize
    /\ pc = "call"
    /\ cleaned_data = <<>>
    /\ i = 1
    /\ all_results = EmptyResults
    /\ nocache_results = EmptyResults
    /\ ret = Pending
    /\ token_requests = 0
    /\ chunks_sent = 0
    /\ handled = <<>>
    /\ local_cache = {}
    /\ gen_cache = {}
    /\ runs = 1
    /\ attempts = NoAttempt
    /\ generated_text = <<>>
    /\ json_str = NoJson
    /\ excel = "none"
    /\ all_reports = NoReports
    /\ workbook = NoWorkbook

\* the caller calls the NCR generator again
Reinvoke ==
    /\ UNCHANGED <<generated_text, json_str, excel, all_reports, workbook>>
    /\ pc = "done"
    /\ runs < MaxRuns
    /\ runs' = runs + 1
    /\ fn' = "ncr"
    /\ df' \in CacheTables
    /\ \E a \in CacheArgPool :
         /\ report_type' = a[1] /\ start_date' = a[2] /\ end_date' = a[3]
         /\ until_date' = a[4]
    /\ debug_bypass_api' = FALSE
    /\ chunk_size' = chunk_size
    /\ pc' = "call"
    /\ cleaned_data' = <<>>
    /\ i' = 1
    /\ all_results' = EmptyResults
    /\ nocache_results' = EmptyResults
    /\ ret' = Pending
    /\ handled' = <<>>
    /\ token_requests' = 0
    /\ chunks_sent' = 0
    /\ attempts' = NoAttempt
    /\ UNCHANGED <<local_cache, gen_cache>>

NextCache ==
    \/ CallCached
    \/ RequestRetried
    \/ NcrCall
    \/ NcrChunkMerged
    \/ NcrChunkFallback
    \/ NcrChunkAbandoned
    \/ NcrFinish
    \/ Reinvoke

SpecCache == InitCache /\ [][NextCache]_vars


\* ------------------------------------------- inputs of the text classifier
\* discipline tags, as the characters of the cell
TagStructuralWorks ==
    <<"S", "t", "r", "u", "c", "t", "u", "r", "a", "l", " ", "W", "o", "r",
    "k", "s">>
TagHSESafety == <<"H", "S", "E", " ", "S", "a", "f", "e", "t", "y">>
TagEmpty == <<>>
TagBlank == <<" ">>
TagNone == <<"n", "o", "n", "e">>
TagNonePadded == <<" ", "N", "o", "n", "e", " ">>
TagSWHSE == <<"S", "W", " ", "H", "S", "E">>
TagSW == <<"S", "W">>
TagFinishing == <<"F", "i", "n", "i", "s", "h", "i", "n", "g">>
TagFW == <<"F", "W">>
TagMEP == <<"M", "E", "P">>
TagNan == <<"n", "a", "n">>
TagCivilSW == <<"C", "i", "v", "i", "l", " ", "S", "W">>

TagPool ==
    {TagHSE, TagStructure, TagCivil, TagStructuralWorks, TagHSESafety,
     TagEmpty, TagBlank, TagNone,
     TagNonePadded, TagHSESW, TagSWHSE, TagSW, TagFinishing, TagFW, TagMEP,
     TagNan, TagCivilSW}

\* descriptions, lower-cased, as tokens
DescRange == <<"pour", "3", "to", "6", "crack">>
DescList == <<"p", "1", ",", "p", "2", "and", "p", "4">>
DescCommonPour == <<"common", "area", "pour", "3">>
DescFlatRange == <<"flat", "no", "5", "pour", "3", "to", "6">>
DescWideRange == <<"pour", "3", "to", "30">>
DescBackRange == <<"pour", "6", "to", "3">>
DescFarRange == <<"pour", "60", "to", "3">>
DescFarPour == <<"pour", "60">>
DescRangeAndPour == <<"pour", "3", "to", "6", "pour", "30">>
DescListAndPour == <<"pour", "3", ",", "4", "pour", "5">>
DescPlain == <<"crack">>
DescHyphenRange == <<"pour", "-", "3", "-", "6">>
DescPourThenRange == <<"pour", "3", "pour", "4", "to", "5">>
DescEmpty == <<>>
DescClub == <<"eden", "club", "tower", "4">>
DescClubhouse == <<"eden", "-", "clubhouse", "t", "5", "&", "t", "6">>
DescTwoTowers == <<"tower", "4", ",", "5", "pour", "3">>
DescCommonTwoTowers == <<"common", "area", "tower", "4", "and", "tower", "5">>
DescFlatTower == <<"flat", "no", "3", "tower", "4">>
DescCommonFlatTower == <<"common", "area", "flat", "no", "tower", "4">>
DescFlat == <<"flat", "no", "3">>
DescCommonTower == <<"common", "area", "tower", "4">>
DescTowers == <<"tower", "-", "30", "t", "5", "pour", "4">>

DescPool ==
    {DescT4P3, DescT5T6, DescRange, DescList, DescCommonPour, DescFlatRange,
     DescWideRange,
     DescBackRange, DescFarRange, DescFarPour, DescRangeAndPour,
     DescListAndPour, DescPlain, DescHyphenRange, DescPourThenRange,
     DescEmpty, DescClub, DescClubhouse, DescTwoTowers,
     DescCommonTwoTowers, DescFlatTower, DescCommonFlatTower, DescFlat,
     DescCommonTower, DescTowers}

\* one-row tables: every description of DescPool under every tag of TagPool
TextTables ==
    {[isNone |-> FALSE, cols |-> AllCols,
      rows |-> <<Row(d, t, "Closed", 1, 30, 29)>>] :
        d \in DescPool, t \in TagPool}

\* a Closed NCR report without a date window on a one-row table
InitText ==
    /\ fn = "ncr"
    /\ df \in TextTables
    /\ report_type = "Closed" /\ start_date = None /\ end_date = None
    /\ until_date = None
    /\ debug_bypass_api = FALSE
    /\ chunk_size \in 1..MaxChunkSize
    /\ pc = "call"
    /\ cleaned_data = <<>>
    /\ i = 1
    /\ all_results = EmptyResults
    /\ nocache_results = EmptyResults
    /\ ret = Pending
    /\ token_requests = 0
    /\ chunks_sent = 0
    /\ handled = <<>>
    /\ local_cache = {}
    /\ gen_cache = {}
    /\ runs = 1
    /\ attempts = NoAttempt
    /\ generated_text = <<>>
    /\ json_str = NoJson
    /\ excel = "none"
    /\ all_reports = NoReports
    /\ workbook = NoWorkbook

NextText ==
    \/ RequestRetried
    \/ NcrCall
    \/ NcrChunkMerged
    \/ NcrChunkFallback
    \/ NcrChunkAbandoned
    \/ NcrFinish

SpecText == InitText /\ [][NextText]_vars

\* ------------------------------------------- the text of a remote response
\* generated_text as a sequence of characters.  "m" stands for the members
\* of an object ("Closed": {...} with no brace of its own), "x" for a
\* character of prose, "N" for a line break and "F" for a code-fence marker
\* (```json, ```python or ```).
TextChars == {"{", "}", "m", "x", "N", "F"}

MaxTextLen == 4

Texts == SeqsUpTo(TextChars, MaxTextLen)

\* the scan of generated_text for json_str: idx runs over the text from
\* from, brace_count and start_idx are the loop's variables.  start_idx = 0
\* is start_idx = None: the positions of a sequence start at 1.
RECURSIVE brace_scan(_, _, _, _)
brace_scan(text, from, brace_count, start_idx) ==
    IF from > Len(text) THEN NoJson
    ELSE IF text[from] = "{"
    THEN brace_scan(text, from + 1, brace_count + 1,
                    IF brace_count = 0 THEN from ELSE start_idx)
    ELSE IF text[from] = "}"
    THEN IF brace_count - 1 = 0 /\ start_idx # 0
         THEN SubSeq(text, start_idx, from)
         ELSE brace_scan(text, from + 1, brace_count - 1, start_idx)
    ELSE brace_scan(text, from + 1, brace_count, start_idx)

\* re.sub(r'```json|```python|```', '', generated_text)
remove_fences(text) == SelectSeq(text, LAMBDA c : c # "F")

\* str.strip() of a text whose only white space is the line break
RECURSIVE strip_text(_)
strip_text(text) ==
    IF text = <<>> THEN <<>>
    ELSE IF Head(text) = "N" THEN strip_text(Tail(text))
    ELSE IF text[Len(text)] = "N"
    THEN strip_text(SubSeq(text, 1, Len(text) - 1))
    ELSE text

\* text.split('\n'): the lines of a text, the empty ones included
RECURSIVE split_lines(_)
split_lines(text) ==
    IF \A k \in DOMAIN text : text[k] # "N" THEN <<text>>
    ELSE LET k == MinOf({j \in DOMAIN text : text[j] = "N"})
         IN  <<SubSeq(text, 1, k - 1)>>
             \o split_lines(SubSeq(text, k + 1, Len(text)))

\* json.loads(text) returns instead of raising JSONDecodeError: white space
\* apart, the text is one object.  An object within an object needs a key
\* in front of it, which no text of TextChars has.
json_loads_ok(text) ==
    SelectSeq(text, LAMBDA c : c # "N") \in {<<"{", "}">>, <<"{", "m", "}">>}

\* clean_and_parse_json as the NCR generator calls it (the second definition
\* of that name, which replaces the first): the text it parsed, or NoJson
\* for None.  The first line that starts with '{' and ends with '}' is
\* parsed and its JSONDecodeError ends the first attempt; the pattern of the
\* second attempt requires characters after the end of the text and matches
\* nothing.
clean_and_parse_json(text) ==
    LET cleaned_text == strip_text(remove_fences(text))
        lines == split_lines(cleaned_text)
        objects == {k \in DOMAIN lines :
                      /\ lines[k] # <<>>
                      /\ Head(lines[k]) = "{"
                      /\ lines[k][Len(lines[k])] = "}"}
    IN  IF objects # {}
        THEN IF json_loads_ok(lines[MinOf(objects)])
             THEN lines[MinOf(objects)] ELSE NoJson
        ELSE IF json_loads_ok(cleaned_text) THEN cleaned_text ELSE NoJson

\* one response text, handled by one generator
InitJson ==
    /\ fn \in Fns
    /\ generated_text \in Texts
    /\ json_str = NoJson
    /\ excel = "none"
    /\ all_reports = NoReports
    /\ workbook = NoWorkbook
    /\ pc = "scan"
    /\ df = [isNone |-> TRUE, cols |-> {}, rows |-> <<>>]
    /\ report_type = "Closed" /\ start_date = None /\ end_date = None
    /\ until_date = None
    /\ debug_bypass_api = FALSE
    /\ chunk_size = 1
    /\ cleaned_data = <<>>
    /\ i = 1
    /\ all_results = EmptyResults
    /\ nocache_results = EmptyResults
    /\ ret = Pending
    /\ token_requests = 0
    /\ chunks_sent = 0
    /\ handled = <<>>
    /\ local_cache = {}
    /\ gen_cache = {}
    /\ runs = 1
    /\ attempts = NoAttempt

\* response handling of a 200 response, up to the text it hands to the
\* merge: clean_and_parse_json in the NCR generator, the brace scan in the
\* Safety and Housekeeping generators
ExtractJson ==
    /\ pc = "scan"
    /\ json_str' = IF fn = "ncr" THEN clean_and_parse_json(generated_text)
                   ELSE brace_scan(generated_text, 1, 0, 0)
    /\ pc' = "scanned"
    /\ UNCHANGED <<fn, df, report_type, start_date, end_date, until_date,
                   debug_bypass_api, chunk_size, cleaned_data, i,
                   all_results, nocache_results, ret, token_requests,
                   chunks_sent, handled, local_cache, gen_cache, runs,
                   attempts, generated_text, excel, all_reports, workbook>>

NextJson == ExtractJson

SpecJson == InitJson /\ [][NextJson]_vars

\* ------------------------------------------------------ spreadsheet reports
\* The keys of an aggregate are site names.  The generators write a tower as
\* "Eden-Tower-04" (NCR), "Eden-Tower 04" (Safety) or "Eden-Tower04"
\* (Housekeeping), and the NCR normalizer writes two towers as
\* "Eden-Tower-05-06-CommonArea"; the NCR prompt also names
\* "Eden-Tower-04-CommonArea".
TowerKeyNcr(t) == "Eden-Tower-" \o zfill2(t)
TowerKeySafety(t) == "Eden-Tower " \o zfill2(t)
TowerKeyHk(t) == "Eden-Tower" \o zfill2(t)
TowerCommonKey(t) == "Eden-Tower-" \o zfill2(t) \o "-CommonArea"
CombinedKey(t, u) ==
    "Eden-Tower-" \o zfill2(t) \o "-" \o zfill2(u) \o "-CommonArea"

\* re.search(r'(?:eden-)?tower-\d+(?:-\d+)?-commonarea', key, re.IGNORECASE)
is_tower_commonarea(key) ==
    \/ \E t \in NumTok : key = TowerCommonKey(t)
    \/ \E t, u \in NumTok : key = CombinedKey(t, u)

\* the name of a tower in a workbook: f"Tower {int(num)}" in the
\* consolidated NCR workbook, f"Eden-Tower {num.zfill(2)}" in the others
TowerName(x, t) ==
    IF x = "OpenClose" THEN "Tower " \o t ELSE "Eden-Tower " \o zfill2(t)

\* a normalize_site_name that names only the first tower of a combined key
excel_normalize_first_tower(x, site) ==
    IF \E t, u \in NumTok : site = CombinedKey(t, u)
      THEN LET p == CHOOSE q \in NumTok \X NumTok : site = CombinedKey(q[1], q[2])
           IN <<TowerName(x, p[1])>>
    ELSE IF \E t \in NumTok : site = TowerCommonKey(t)
      THEN <<TowerName(x, CHOOSE t \in NumTok : site = TowerCommonKey(t))>>
    ELSE IF site \in {"CommonArea", "Common Area"} THEN <<"Common_Area">>
    ELSE IF \E t \in NumTok :
              site \in {TowerKeyNcr(t), TowerKeySafety(t), TowerKeyHk(t)}
      THEN <<TowerName(x, CHOOSE t \in NumTok :
                 site \in {TowerKeyNcr(t), TowerKeySafety(t), TowerKeyHk(t)})>>
    ELSE <<site>>

\* normalize_site_name of the NCR workbooks (x = "OpenClose", "combined"):
\* the normalized names of a key, two for a combined tower common area
excel_normalize_site_name(x, site) ==
    IF \E t, u \in NumTok : site = CombinedKey(t, u)
      THEN LET p == CHOOSE q \in NumTok \X NumTok : site = CombinedKey(q[1], q[2])
           IN <<TowerName(x, p[1]), TowerName(x, p[2])>>
    ELSE IF \E t \in NumTok : site = TowerCommonKey(t)
      THEN <<TowerName(x, CHOOSE t \in NumTok : site = TowerCommonKey(t))>>
    ELSE IF site \in {"CommonArea", "Common Area"} THEN <<"Common_Area">>
    ELSE IF \E t \in NumTok :
              site \in {TowerKeyNcr(t), TowerKeySafety(t), TowerKeyHk(t)}
      THEN <<TowerName(x, CHOOSE t \in NumTok :
                 site \in {TowerKeyNcr(t), TowerKeySafety(t), TowerKeyHk(t)})>>
    ELSE <<site>>

\* normalize_site_name of the standalone Safety and Housekeeping workbooks
summary_normalize_site_name(site) ==
    IF site = "Common_Area" THEN site
    ELSE IF site \in {"CommonArea", "Common Area"} \/ is_tower_commonarea(site)
      THEN "Common_Area"
    ELSE IF \E t \in NumTok :
              site \in {TowerKeyNcr(t), TowerKeySafety(t), TowerKeyHk(t)}
      THEN TowerName("summary", CHOOSE t \in NumTok :
                 site \in {TowerKeyNcr(t), TowerKeySafety(t), TowerKeyHk(t)})
    ELSE site

standard_sites(x) ==
    IF x = "OpenClose"
      THEN {"Tower 4", "Tower 5", "Tower 6", "Tower 7", "Common_Area"}
      ELSE {"Eden-Tower 04", "Eden-Tower 05", "Eden-Tower 06", "Eden-Tower 07",
            "Common_Area"}

\* find_original_keys: the keys whose normalized names include a site
find_original_keys(x, keys, normalized_site) ==
    {k \in keys : \E j \in DOMAIN excel_normalize_site_name(x, k) :
                     excel_normalize_site_name(x, k)[j] = normalized_site}

categories == {"Civil Finishing", "Structure Works", "MEP"}

pour_levels == {"Pour 1", "Pour 2"}

\* map_pour_to_level on the labels an aggregate can hold: "Pour 1",
\* "Module 2" and "1" name a level, every other label ("P1", "Common") is
\* "common"
map_pour_to_level(pour_name) ==
    IF pour_name \in {"Pour 1", "Module 1", "1"} THEN "Pour 1"
    ELSE IF pour_name \in {"Pour 2", "Module 2", "2"} THEN "Pour 2"
    ELSE "common"

\* the display category of an entry of a bucket's Discipline list in the
\* rows of a tower; the consolidated workbook puts an unknown entry under
\* Structure Works, the combined one under MEP
tower_category(x, discipline) ==
    IF discipline = TagSW THEN "Structure Works"
    ELSE IF discipline = TagFW THEN "Civil Finishing"
    ELSE IF discipline \in {TagMEP, TagHSE} THEN "MEP"
    ELSE IF x = "OpenClose" THEN "Structure Works" ELSE "MEP"

\* the same in the Common_Area row, "" for an entry that is not counted
common_area_category(discipline) ==
    IF discipline = TagSW THEN "Structure Works"
    ELSE IF discipline = TagFW THEN "Civil Finishing"
    ELSE IF discipline \in {TagMEP, TagHSE} THEN "MEP"
    ELSE ""

\* pours[i] if i < len(pours) else ['Common']
pour_list(site_data, k) ==
    IF k <= Len(site_data.Pours) THEN site_data.Pours[k] ELSE <<"Common">>

\* every "+= 1" the loop over the keys of a tower executes on one side
\* (resolved or open) of the cross-tab, with the level and category it
\* counts under
tower_tallies(x, sites, keys, site) ==
    UNION {
      IF is_tower_commonarea(key)
        THEN {[key |-> key, k |-> k, p |-> 0, level |-> "common",
               cat |-> tower_category(x, sites[key].Discipline[k])] :
                k \in DOMAIN sites[key].Discipline}
        ELSE UNION {
               {[key |-> key, k |-> k, p |-> p,
                 level |-> map_pour_to_level(pour_list(sites[key], k)[p]),
                 cat |-> tower_category(x, sites[key].Discipline[k])] :
                  p \in DOMAIN pour_list(sites[key], k)} :
               k \in DOMAIN sites[key].Discipline}
      : key \in find_original_keys(x, keys, site) \cap DOMAIN sites}

\* the same for the Common_Area row: tower common areas are skipped
common_area_tallies(x, sites, keys) ==
    UNION {
      {[key |-> key, k |-> k, p |-> 0, level |-> "common",
        cat |-> common_area_category(sites[key].Discipline[k])] :
         k \in {n \in DOMAIN sites[key].Discipline :
                  common_area_category(sites[key].Discipline[n]) # ""}}
      : key \in {o \in find_original_keys(x, keys, "Common_Area") \cap DOMAIN sites :
                    ~is_tower_commonarea(o)}}

site_tallies(x, sites, keys, site) ==
    IF site = "Common_Area" THEN common_area_tallies(x, sites, keys)
    ELSE tower_tallies(x, sites, keys, site)

\* resolved_counts or open_counts of a site
site_counts(x, sites, keys, site) ==
    [cat \in categories |->
        Cardinality({e \in site_tallies(x, sites, keys, site) : e.cat = cat})]

\* the counts of the row of a pour level or of "Common Description"
level_counts(x, sites, keys, site, level) ==
    [cat \in categories |->
        Cardinality({e \in site_tallies(x, sites, keys, site) :
                        e.cat = cat /\ e.level = level})]

\* the Sites of one side of combined_result: an error payload counts as no
\* sites
sites_of(payload) == IF IsAggregate(payload) THEN payload.Sites ELSE EmptyMap

\* the summary sheet 'NCR Report': per standard site the counts of both
\* sides, the total, and for a tower the rows of its pour levels
ncr_summary(x, combined_result) ==
    LET resolved_sites == sites_of(combined_result.resolved)
        open_sites == sites_of(combined_result.open)
        keys == DOMAIN resolved_sites \cup DOMAIN open_sites
    IN [site \in standard_sites(x) |->
          [resolved |-> site_counts(x, resolved_sites, keys, site),
           open |-> site_counts(x, open_sites, keys, site),
           total |-> Cardinality(site_tallies(x, resolved_sites, keys, site))
                     + Cardinality(site_tallies(x, open_sites, keys, site)),
           levels |->
             IF site = "Common_Area" THEN EmptyMap
             ELSE [level \in pour_levels \cup {"common"} |->
                     [resolved |-> level_counts(x, resolved_sites, keys, site, level),
                      open |-> level_counts(x, open_sites, keys, site, level)]]]]

\* the "" a detail sheet writes in a date cell whose list is too short
Blank == -4

\* xs[k] if k < len(xs) else ""
Cell(xs, k, blank) == IF k <= Len(xs) THEN xs[k] ELSE blank

MaxLen(lens) == CHOOSE n \in lens : \A m \in lens : n >= m

\* write_detail_sheet of the NCR workbooks: the rows written, each with the
\* key, the position nth of the normalized name among the names of the key
\* and the index k it was written for
write_detail_sheet(x, data, keys) ==
    UNION {
      UNION {
        {[key |-> site, nth |-> nth, k |-> k,
          Site |-> excel_normalize_site_name(x, site)[nth],
          Description |-> Cell(data[site].Descriptions, k, <<>>),
          Created |-> Cell(data[site].Created, k, Blank),
          Close |-> Cell(data[site].Close, k, Blank),
          Status |-> Cell(data[site].Status, k, ""),
          Discipline |-> Cell(data[site].Discipline, k, <<>>)] :
           k \in 1..MaxLen({Len(data[site].Descriptions), Len(data[site].Created),
                            Len(data[site].Close), Len(data[site].Status),
                            Len(data[site].Discipline)})}
        : nth \in DOMAIN excel_normalize_site_name(x, site)}
      : site \in DOMAIN data}

\* generate_consolidated_ncr_OpenClose_excel_for_eden, and the NCR sheets of
\* generate_combined_excel_report_for_eden: a detail sheet is written for a
\* side that has sites
ncr_sheets(x, combined_result) ==
    LET resolved_sites == sites_of(combined_result.resolved)
        open_sites == sites_of(combined_result.open)
        keys == DOMAIN resolved_sites \cup DOMAIN open_sites
    IN [summary |-> ncr_summary(x, combined_result),
        closed_details |-> write_detail_sheet(x, resolved_sites, keys),
        open_details |-> write_detail_sheet(x, open_sites, keys)]

\* the keys write_safety_housekeeping_report reads for a standard site
hs_original_keys(sites_data, site) ==
    {k \in find_original_keys("combined", DOMAIN sites_data, site) :
        ~is_tower_commonarea(k) \/ site # "Common_Area"}

hs_detail_rows(sites_data, key, site) ==
    {[key |-> key, k |-> k, Site |-> site,
      Description |-> Cell(sites_data[key].Descriptions, k, <<>>),
      Created |-> Cell(sites_data[key].Created, k, Blank),
      Close |-> Cell(sites_data[key].Close, k, Blank),
      Status |-> Cell(sites_data[key].Status, k, ""),
      Discipline |-> TagHSE] :
       k \in 1..MaxLen({Len(sites_data[key].Descriptions),
                        Len(sites_data[key].Created),
                        Len(sites_data[key].Close),
                        Len(sites_data[key].Status)})}

\* write_safety_housekeeping_report of generate_combined_excel_report_for_eden
write_safety_housekeeping_report(data) ==
    LET sites_data == sites_of(data)
    IN [summary |->
          [site \in standard_sites("combined") |->
              SumOver([k \in DOMAIN sites_data |-> sites_data[k].Count],
                      hs_original_keys(sites_data, site))],
        details |->
          UNION {UNION {hs_detail_rows(sites_data, key, site) :
                          key \in hs_original_keys(sites_data, site)} :
                 site \in standard_sites("combined")}]

\* the keys of data a standard site can be looked up under by
\* next((k for k, v in site_mapping.items() if v == site), None)
summary_keys(sites_data, site) ==
    {k \in DOMAIN sites_data : summary_normalize_site_name(k) = site}

\* the outcomes of that lookup for every standard site: the first key in the
\* order of the dictionary, "" for None.  The order is the order in which
\* the sites entered the aggregate, which the model does not keep.
FirstKeys(sites_data) ==
    {f \in [standard_sites("summary") -> DOMAIN sites_data \cup {""}] :
        \A site \in standard_sites("summary") :
            IF summary_keys(sites_data, site) = {} THEN f[site] = ""
            ELSE f[site] \in summary_keys(sites_data, site)}

\* generate_consolidated_ncr_Housekeeping_excel_for_eden and
\* generate_consolidated_ncr_Safety_excel_for_eden
hs_sheets(combined_result, original_key) ==
    LET data == sites_of(combined_result)
    IN [summary |->
          [site \in standard_sites("summary") |->
              IF original_key[site] # "" THEN data[original_key[site]].Count
              ELSE 0],
        details |->
          UNION {IF original_key[site] # ""
                   THEN hs_detail_rows(data, original_key[site], site)
                   ELSE {} :
                 site \in standard_sites("summary")}]

\* generate_combined_excel_report_for_eden
combined_sheets(reports) ==
    [ncr |-> ncr_sheets("combined", reports.Combined_NCR),
     Safety_NCR_Closed |-> write_safety_housekeeping_report(reports.Safety_NCR_Closed),
     Safety_NCR_Open |-> write_safety_housekeeping_report(reports.Safety_NCR_Open),
     Housekeeping_NCR_Closed |->
         write_safety_housekeeping_report(reports.Housekeeping_NCR_Closed),
     Housekeeping_NCR_Open |->
         write_safety_housekeeping_report(reports.Housekeeping_NCR_Open)]

\* ------------------------------------------------- inputs of the workbooks
MaxReportRows == 2

DescT4P1to2 == <<"tower", "4", "pour", "1", "to", "2", "crack">>
DescT5Dust == <<"tower", "5", "dust">>

ReportClosedRows ==
    { Row(DescT4P3, TagStructure, "Closed", 1, 30, 29),
      Row(DescT4P1to2, TagSW, "Closed", 1, 30, 29),
      Row(DescT5T6, TagCivil, "Closed", 1, 30, 29),
      Row(DescCommonDust, TagMEP, "Closed", 1, 30, 29),
      Row(DescCommonDust, TagCivil, "Closed", 1, 30, 29) }

ReportOpenRows ==
    { Row(DescT4P3, TagStructure, "Open", 1, NaT, NaN),
      Row(DescT5T6, TagSW, "Open", 1, NaT, NaN),
      Row(DescCommonDust, TagMEP, "Open", 1, NaT, NaN) }

ReportHsRows ==
    { Row(DescCommonDust, TagHSE, "Closed", 1, 30, 29),
      Row(DescT5Dust, TagHSE, "Closed", 1, 30, 29),
      Row(DescT5T6, TagHSE, "Closed", 1, 30, 29),
      Row(DescFan, TagHSE, "Closed", 1, 30, 29) }

ReportTable(rows) == [isNone |-> FALSE, cols |-> AllCols, rows |-> rows]

\* what generate_ncr_report_for_eden returns for a table when every chunk
\* is processed by process_chunk_locally
ncr_report(rows, rt) ==
    LET prep == ncr_prepare(ReportTable(rows), rt, None, None,
                            IF rt = "Open" THEN TODAY ELSE None)
    IN IF prep.err # "" THEN Error(prep.err)
       ELSE process_chunk_locally(prep.data, EmptyResults)

\* another spelling of a site name, as a remote response may hold it
Respell(site) ==
    IF site = "Common_Area" THEN "Common Area"
    ELSE IF \E t \in NumTok : site = TowerKeyHk(t)
      THEN TowerKeySafety(CHOOSE t \in NumTok : site = TowerKeyHk(t))
    ELSE IF \E t \in NumTok : site = TowerKeySafety(t)
      THEN TowerKeyNcr(CHOOSE t \in NumTok : site = TowerKeySafety(t))
    ELSE site

\* what a Safety or Housekeeping generator returns for a table whose chunk
\* is merged from a remote response that counts every record and, when
\* respelled, files the last record under another spelling of its site: the
\* outcomes of the set conversion
hs_report(f, rows, rt, respelled) ==
    LET prep == hs_prepare(f, ReportTable(rows), rt, None, None, None)
        data == [k \in DOMAIN prep.data |->
                   IF respelled /\ k = Len(prep.data)
                     THEN [prep.data[k] EXCEPT !.Tower = Respell(@)]
                     ELSE prep.data[k]]
    IN IF prep.err # "" THEN {Error(prep.err)}
       ELSE hs_finalize(hs_merge(EmptyResults, hs_local(f, data, EmptyResults)))

NcrReports(pool, rt) ==
    {ncr_report(rows, rt) : rows \in SeqsUpTo(pool, MaxReportRows)}

HsReports(f) ==
    UNION {hs_report(f, rows, "Closed", respelled) :
             rows \in SeqsUpTo(ReportHsRows, MaxReportRows), respelled \in BOOLEAN}

CombinedNcrResults ==
    {[resolved |-> r, open |-> o] :
        r \in NcrReports(ReportClosedRows, "Closed"),
        o \in NcrReports(ReportOpenRows, "Open")}

\* the reports of the Safety and Housekeeping sheets of the combined
\* workbook: none, or the report of one row
HsSheetReports(f) ==
    UNION {hs_report(f, rows, "Closed", FALSE) :
        rows \in {<<>>, <<Row(DescT5T6, TagHSE, "Closed", 1, 30, 29)>>,
                  <<Row(DescT5Dust, TagHSE, "Closed", 1, 30, 29)>>}}

ReportInputs(x) ==
    IF x = "OpenClose" THEN CombinedNcrResults
    ELSE IF x = "Housekeeping" THEN HsReports("housekeeping")
    ELSE IF x = "Safety" THEN HsReports("safety")
    ELSE {[Combined_NCR |-> c, Safety_NCR_Closed |-> sc, Safety_NCR_Open |-> so,
           Housekeeping_NCR_Closed |-> hc, Housekeeping_NCR_Open |-> ho] :
            c \in CombinedNcrResults,
            sc \in HsSheetReports("safety"), so \in {EmptyResults},
            hc \in HsSheetReports("housekeeping"), ho \in {EmptyResults}}

\* one call of a spreadsheet function on the reports of the generators
InitReport ==
    /\ excel \in {"OpenClose", "combined", "Housekeeping", "Safety"}
    /\ all_reports \in ReportInputs(excel)
    /\ workbook = NoWorkbook
    /\ pc = "report"
    /\ fn = "ncr"
    /\ df = [isNone |-> TRUE, cols |-> {}, rows |-> <<>>]
    /\ report_type = "Closed" /\ start_date = None /\ end_date = None
    /\ until_date = None
    /\ debug_bypass_api = FALSE
    /\ chunk_size = 1
    /\ cleaned_data = <<>>
    /\ i = 1
    /\ all_results = EmptyResults
    /\ nocache_results = EmptyResults
    /\ ret = Pending
    /\ token_requests = 0
    /\ chunks_sent = 0
    /\ handled = <<>>
    /\ local_cache = {}
    /\ gen_cache = {}
    /\ runs = 1
    /\ attempts = NoAttempt
    /\ generated_text = <<>>
    /\ json_str = NoJson

ReportWritten ==
    /\ pc' = "reported"
    /\ UNCHANGED <<fn, df, report_type, start_date, end_date, until_date,
                   debug_bypass_api, cleaned_data, chunk_size, i, all_results,
                   ret, token_requests, chunks_sent, handled, local_cache,
                   gen_cache, runs, nocache_results, attempts, generated_text,
                   json_str, excel, all_reports>>

OpenCloseExcel ==
    /\ pc = "report" /\ excel = "OpenClose"
    /\ workbook' = ncr_sheets("OpenClose", all_reports)
    /\ ReportWritten

CombinedExcel ==
    /\ pc = "report" /\ excel = "combined"
    /\ workbook' = combined_sheets(all_reports)
    /\ ReportWritten

HousekeepingExcel ==
    /\ pc = "report" /\ excel = "Housekeeping"
    /\ \E original_key \in FirstKeys(sites_of(all_reports)) :
         workbook' = hs_sheets(all_reports, original_key)
    /\ ReportWritten

SafetyExcel ==
    /\ pc = "report" /\ excel = "Safety"
    /\ \E original_key \in FirstKeys(sites_of(all_reports)) :
         workbook' = hs_sheets(all_reports, original_key)
    /\ ReportWritten

NextReport ==
    \/ OpenCloseExcel
    \/ CombinedExcel
    \/ HousekeepingExcel
    \/ SafetyExcel

SpecReport == InitReport /\ [][NextReport]_vars

\* ================================================================== claims
\* a generator ran its chunk loop to the end and returned an aggregate
Aggregated == pc = "done" /\ IsAggregate(ret) /\ handled # <<>>

Towers == {cleaned_data[k].Tower : k \in DOMAIN cleaned_data}

TowerCount(site) ==
    Cardinality({k \in DOMAIN cleaned_data : cleaned_data[k].Tower = site})

\* the per-site total of an aggregate: Total in the NCR path, Count elsewhere
SiteTotal(payload, site) ==
    IF site \notin DOMAIN payload.Sites THEN 0
    ELSE IF fn = "ncr" THEN payload.Sites[site].Total
    ELSE payload.Sites[site].Count

SiteTotals(payload) == [s \in DOMAIN payload.Sites |-> SiteTotal(payload, s)]

\* C1: in every report path and for every sequence of per-chunk remote
\* outcomes, each record of the list handed to chunking is counted exactly
\* once in the per-site counts of the final aggregate: every site's count is
\* the number of records of that site.
C1_EveryRecordCountedOnce ==
    Aggregated =>
        \A site \in Towers \cup DOMAIN ret.Sites :
            SiteTotal(ret, site) = TowerCount(site)

\* C2: whenever an aggregation completes, Grand_Total equals the number of
\* normalized records fed into chunking.
C2_GrandTotalIsInputCount ==
    Aggregated => ret.Grand_Total = Len(cleaned_data)

\* C3: whenever an aggregation completes, the per-site totals add up to
\* Grand_Total.
C3_SiteTotalsSumToGrandTotal ==
    Aggregated =>
        SumOver(SiteTotals(ret), DOMAIN ret.Sites) = ret.Grand_Total

\* the step handles one chunk from a parsed remote response
RemoteMergeStep ==
    /\ Len(handled') = Len(handled) + 1
    /\ handled'[Len(handled')].by = "remote"

\* C4: a merge step increases Grand_Total by the length of the chunk
\* processed, never by a number of the remote response.
C4_GrandTotalGrowsByChunkLength ==
    [][RemoteMergeStep =>
         all_results'.Grand_Total = all_results.Grand_Total + Len(Chunk)]_vars

\* the step handles one chunk whose remote step failed with one of the
\* failures of the claim
RemoteFailureStep ==
    /\ Len(handled') = Len(handled) + 1
    /\ handled'[Len(handled')].cause \in RemoteFailures

\* the accumulator after the Local Aggregator processed chunk on top of res
LocalAggregate(chunk, res) ==
    IF fn = "ncr" THEN process_chunk_locally(chunk, res)
    ELSE hs_local(fn, chunk, res)

\* C5: for each chunk, any failure of the remote step (network error,
\* timeout, non-200 status, no JSON, unparseable JSON, missing report key)
\* makes the Local Aggregator process exactly that chunk, in every path.
C5_FailureFallsBackToLocal ==
    [][RemoteFailureStep =>
         all_results' = LocalAggregate(Chunk, all_results)]_vars

\* C6: no remote-service failure makes a report generation return an error
\* payload: once the chunk loop has started, the generator returns an
\* aggregate.
C6_RemoteFailureNeverFatal ==
    (pc = "done" /\ chunks_sent > 0) => ~IsError(ret)

\* C7: in the NCR path, records equal in every field appear once in the list
\* passed to chunking.
C7_NoDuplicateRecords ==
    (fn = "ncr" /\ pc = "chunks") =>
        \A k, m \in DOMAIN cleaned_data :
            cleaned_data[k] = cleaned_data[m] => k = m

\* C8: memoization does not change the output: the aggregate a call returns
\* after running its chunk loop equals the aggregate of the same call with
\* every call of process_chunk_locally executed.
C8_CachingKeepsOutput ==
    (pc = "done" /\ IsAggregate(ret) /\ handled # <<>>) =>
        ret = nocache_results

\* the arguments pass validation and the filter by status, age and date
\* window keeps no row
FilterLeavesNoRow ==
    IF fn = "ncr"
      THEN /\ ncr_input_error(df, report_type, start_date, end_date,
                              until_date) = ""
           /\ ncr_filter(df.rows, report_type, start_date, end_date,
                         until_date) = <<>>
      ELSE /\ hs_input_error(fn, df, report_type, start_date, end_date,
                             until_date) = ""
           /\ hs_filter(fn, df.rows, report_type, start_date, end_date,
                        until_date) = <<>>

\* C9: when filtering leaves zero rows the generator returns the empty-result
\* sentinel (no sites, Grand_Total 0) and no payload with an 'error' key, in
\* the NCR, Safety and Housekeeping generators.
C9_NoRowsGivesSentinel ==
    (pc = "done" /\ FilterLeavesNoRow) => ret = EmptyResults

\* the table is None, empty, or lacks a column the NCR generator requires
NcrTableUnusable ==
    \/ df.isNone
    \/ df.rows = <<>>
    \/ ~({"Created Date (WET)", "Status"} \subseteq df.cols)
    \/ report_type = "Closed" /\ "Expected Close Date (WET)" \notin df.cols

\* C10: when the source table is None, empty or lacks a required column,
\* generate_ncr_report_for_eden returns a payload with an 'error' key,
\* requests no access token and sends no chunk.
C10_UnusableTableIsError ==
    (fn = "ncr" /\ pc = "done" /\ NcrTableUnusable) =>
        (IsError(ret) /\ token_requests = 0 /\ chunks_sent = 0)

\* a call on a table with rows but without its Status column has returned
C10_Witness ==
    /\ fn = "ncr" /\ pc = "done"
    /\ ~df.isNone /\ df.rows # <<>> /\ "Status" \notin df.cols
    /\ IsError(ret) /\ token_requests = 0

\* ------------------------------------------------------------------- C11
\* the table holds every column and at least one row
TableComplete == ~df.isNone /\ df.cols = AllCols /\ df.rows # <<>>

OpenWithoutCutoff == report_type = "Open" /\ until_date = None

\* C11: for report type Open in the NCR path a call without a cutoff date
\* returns an error payload (on a complete table the payload "Open Until
\* Date is required") and processes no record: nothing is normalized, no
\* token is requested, no chunk is sent.  In the Safety and Housekeeping
\* paths a call without a cutoff date on a complete table raises no error
\* before the access token is requested.
C11_MissingCutoff ==
    /\ (fn = "ncr" /\ OpenWithoutCutoff /\ pc # "call") =>
          /\ pc = "done" /\ IsError(ret)
          /\ cleaned_data = <<>> /\ token_requests = 0 /\ chunks_sent = 0
          /\ handled = <<>>
          /\ TableComplete => ret = Error("Open Until Date is required")
    /\ (fn \in {"safety", "housekeeping"} /\ OpenWithoutCutoff
        /\ TableComplete /\ pc = "done" /\ token_requests = 0) =>
          ~IsError(ret)

\* an Open NCR call without a cutoff date on a complete table has returned
C11_Witness ==
    /\ fn = "ncr" /\ OpenWithoutCutoff /\ TableComplete /\ pc = "done"
    /\ ret = Error("Open Until Date is required")

\* ------------------------------------------------------------------- C12
\* a Closed report was called with both ends of the date window
ClosedWithWindow ==
    report_type = "Closed" /\ start_date > None /\ end_date > None

\* C12: for a Closed report with a supplied date window [start, end], every
\* record kept by the filter has its creation date on or after start and its
\* close date on or before end, in the NCR, Safety and Housekeeping paths.
C12_WindowBoundsCreatedAndClose ==
    (ClosedWithWindow /\ pc # "call" /\ ~IsError(ret)) =>
        \A k \in DOMAIN cleaned_data :
            /\ cleaned_data[k].Created >= start_date
            /\ cleaned_data[k].Close <= end_date

\* ------------------------------------------------------------------- C13
\* the single row of the table of a text-classifier run
TheRow == df.rows[1]

\* the NCR normalizer ran on TheRow, whose description is not empty
Normalized == pc # "call" /\ Len(df.rows) = 1 /\ TheRow.Description # <<>>

\* TheRow was kept by the normalizer with category cat
KeptAs(cat) ==
    Len(cleaned_data) = 1 /\ cleaned_data[1].Discipline_Category = cat

\* C13: the discipline classifier maps the tag "Structural Works" to SW (the
\* record is aggregated as SW), the tag "HSE Safety" to HSE (the record is
\* skipped from the NCR aggregation), and the tags "" and "none" to a
\* dropped record.
C13_TagExamples ==
    Normalized =>
        /\ TheRow.Discipline = TagStructuralWorks => KeptAs("SW")
        /\ TheRow.Discipline = TagHSESafety =>
              /\ discipline_category(TheRow.Discipline) = "HSE"
              /\ cleaned_data = <<>>
        /\ TheRow.Discipline \in {TagEmpty, TagNone} =>
              /\ discipline_category(TheRow.Discipline) = "drop"
              /\ cleaned_data = <<>>

\* ------------------------------------------------------------------- C14
Chars_hse == <<"h", "s", "e">>
Chars_sw == <<"s", "w">>

\* the category the order of C14 gives to a lower-cased, trimmed tag
FirstMatch(t) ==
    IF t = <<>> \/ t = <<"n", "o", "n", "e">> THEN "drop"
    ELSE IF Contains(t, Chars_hse) THEN "HSE"
    ELSE IF Contains(t, <<"s", "t", "r", "u", "c", "t", "u", "r", "e">>)
            \/ Contains(t, Chars_sw) THEN "SW"
    ELSE IF Contains(t, <<"c", "i", "v", "i", "l">>)
            \/ Contains(t, <<"f", "i", "n", "i", "s", "h", "i", "n", "g">>)
            \/ Contains(t, <<"f", "w">>) THEN "FW"
    ELSE "MEP"

\* C14: the discipline tag, lower-cased and trimmed, is classified by first
\* match in the order: empty or "none" dropped, "hse" HSE, "structure" or
\* "sw" SW, "civil", "finishing" or "fw" FW, anything else MEP.  A tag with
\* both "hse" and "sw" is HSE, dropped and HSE records do not reach
\* aggregation, and every record that does carries exactly one of SW, FW, MEP.
C14_FirstMatchOrder ==
    Normalized =>
        LET t == lower(strip(TheRow.Discipline))
            cat == FirstMatch(t)
        IN /\ (Contains(t, Chars_hse) /\ Contains(t, Chars_sw)) => cat = "HSE"
           /\ IF cat \in {"drop", "HSE"} THEN cleaned_data = <<>>
              ELSE cat \in {"SW", "FW", "MEP"} /\ KeptAs(cat)

\* a record tagged "HSE SW" was classified and skipped
C14_Witness ==
    /\ Normalized /\ pc = "done" /\ TheRow.Discipline = TagHSESW
    /\ cleaned_data = <<>> /\ ret = EmptyResults

\* ------------------------------------------------------------------- C15
\* TheRow reached the normalized list
Kept == Normalized /\ Len(cleaned_data) = 1

\* the description holds a pour token
HasPourToken(d) == \E p \in 1..Len(d) : PourNumAt(d, p) # 0

\* rule 1 of pour extraction applies to the description
CommonRule(d) == HasPhrase(d, "common", "area") \/ HasPhrase(d, "flat", "no")

\* the labels form exactly the set S, each once
LabelsAre(labels, S) == Range(labels) = S /\ Len(labels) = Cardinality(S)

\* C15: pour extraction returns {P3,P4,P5,P6} for the description "pour 3 to
\* 6", {P1,P2,P4} for "P1, P2 and P4", and exactly {Common} for every
\* description containing "common area" or "flat no", whatever pour tokens
\* the description also contains.
C15_PourExamples ==
    Kept =>
        LET d == TheRow.Description
            labels == cleaned_data[1].Pours
        IN /\ d = DescRange => LabelsAre(labels, {"P3", "P4", "P5", "P6"})
           /\ d = DescList => LabelsAre(labels, {"P1", "P2", "P4"})
           /\ CommonRule(d) => labels = <<"Common">>

\* a record whose description holds "common area" and a pour token was kept
\* with the label Common alone
C15_Witness ==
    /\ Kept /\ pc = "done"
    /\ HasPhrase(TheRow.Description, "common", "area")
    /\ HasPourToken(TheRow.Description)
    /\ cleaned_data[1].Pours = <<"Common">>

\* ------------------------------------------------------------------- C16
Labels(S) == {PourLabel(n) : n \in S}

\* the positions of the range tokens "pour N to M" of a description
RangeTokens(d) == {p \in 1..Len(d) : RangeEndAt(d, p) # 0}

\* the range token at p has M - N > 20 or N > M
RangeRejected(d, p) ==
    LET N == NumVal(d[PourNumAt(d, p)])
        M == NumVal(d[RangeEndAt(d, p)])
    IN M - N > 20 \/ N > M

\* C16: a range token "pour N to M" with M - N > 20 or N > M contributes no
\* label from the range tier, and extraction proceeds to the list tier and,
\* if that yields nothing, to the individual tier.  In every case the labels
\* of the result are those of one tier alone, the first of range, list and
\* individual that yields any, and the result is {Common} if none does.
C16_OneTierContributes ==
    (Kept /\ ~CommonRule(TheRow.Description)) =>
        LET d == TheRow.Description
            labels == cleaned_data[1].Pours
            R == Labels(range_pours(d))
            L == Labels(list_pours(d))
            I == Labels(individual_pours(d))
        IN /\ (\A p \in RangeTokens(d) : RangeRejected(d, p)) =>
                 /\ R = {}
                 /\ Range(labels) = (IF L # {} THEN L
                                     ELSE IF I # {} THEN I ELSE {"Common"})
           /\ Range(labels) \in {R, L, I, {"Common"}}
           /\ Range(labels) = (IF R # {} THEN R
                               ELSE IF L # {} THEN L
                               ELSE IF I # {} THEN I ELSE {"Common"})

\* a description whose only range token is rejected and whose list tier
\* yields nothing was kept with the label of the individual tier
C16_Witness ==
    /\ Kept /\ pc = "done"
    /\ RangeTokens(TheRow.Description) # {}
    /\ \A p \in RangeTokens(TheRow.Description) :
          RangeRejected(TheRow.Description, p)
    /\ list_pours(TheRow.Description) = {}
    /\ individual_pours(TheRow.Description) # {}
    /\ Range(cleaned_data[1].Pours) = Labels(individual_pours(TheRow.Description))

\* ------------------------------------------------------------------- C17
ClubPhrase(d) ==
    \E p \in 1..(Len(d) - 1) :
        /\ d[p] = "eden"
        /\ \/ d[p + 1] \in {"club", "clubhouse"}
           \/ p + 2 <= Len(d) /\ d[p + 1] = "-" /\ d[p + 2] = "clubhouse"

\* the numeral of the first match of the tower pattern, padded to 2 digits
FirstTower(d) == zfill2(d[TowerNumAt(d, MinOf(tower_matches(d)))])

\* the two numerals of the first match of the two-tower pattern, padded
TwoTowers(d) ==
    LET p == MinOf(multiple_tower_pattern(d))
    IN <<zfill2(d[TowerNumAt(d, p)]), zfill2(d[SecondTowerAt(d, p)])>>

\* the number of the rule of C17 that is the first to match the description
TowerRule(d) ==
    IF ClubPhrase(d) THEN 1
    ELSE IF multiple_tower_pattern(d) # {} THEN 2
    ELSE IF HasPhrase(d, "flat", "no") /\ tower_matches(d) # {} THEN 3
    ELSE IF HasPhrase(d, "common", "area") \/ tower_matches(d) = {} THEN 4
    ELSE 5

\* C17: tower resolution applies the first matching rule in the order: a
\* club phrase gives the club site; a two-tower pattern gives
\* Eden-Tower-NN-MM-CommonArea with both numbers padded to 2 digits; "flat
\* no" with a tower number gives that tower; a "common area" phrase or no
\* tower number gives Common_Area; otherwise the first tower number, padded
\* to 2 digits.  Every record that reaches aggregation has one tower value,
\* assigned by that rule.
C17_TowerRuleOrder ==
    Kept =>
        LET d == TheRow.Description
            tower == cleaned_data[1].Tower
        IN /\ TowerRule(d) = 1 => tower = "Eden-Club"
           /\ TowerRule(d) = 2 =>
                 tower = "Eden-Tower-" \o TwoTowers(d)[1] \o "-"
                            \o TwoTowers(d)[2] \o "-CommonArea"
           /\ TowerRule(d) = 3 => tower = "Eden-Tower-" \o FirstTower(d)
           /\ TowerRule(d) = 4 => tower = "Common_Area"
           /\ TowerRule(d) = 5 => tower = "Eden-Tower-" \o FirstTower(d)

\* a description with "common area", "flat no" and one tower number was kept
\* under that tower: rule 3 came before rule 4
C17_Witness ==
    /\ Kept /\ pc = "done"
    /\ TheRow.Description = DescCommonFlatTower
    /\ cleaned_data[1].Tower = "Eden-Tower-04"

\* ------------------------------------------------------------------- C18
\* the chunks processed so far, concatenated in processing order
RECURSIVE ChunksConcat(_)
ChunksConcat(h) ==
    IF h = <<>> THEN <<>>
    ELSE ChunksConcat(SubSeq(h, 1, Len(h) - 1)) \o h[Len(h)].chunk

\* the generator went through its chunk loop and returned the accumulator
LoopCompleted ==
    /\ pc = "done" /\ IsAggregate(ret) /\ cleaned_data # <<>>
    /\ ~(fn = "safety" /\ debug_bypass_api)

\* C18: chunks are consecutive slices of the normalized list: concatenated in
\* processing order they are a prefix of that list while the loop runs and
\* the whole list when it has completed (same order, every record in exactly
\* one chunk), and every chunk holds between 1 and chunk_size records, for
\* every list length and every configured chunk size.
C18_ChunksPartitionList ==
    /\ \A k \in DOMAIN handled :
          Len(handled[k].chunk) >= 1 /\ Len(handled[k].chunk) <= chunk_size
    /\ pc = "chunks" =>
          ChunksConcat(handled) = SubSeq(cleaned_data, 1, Len(ChunksConcat(handled)))
    /\ LoopCompleted => ChunksConcat(handled) = cleaned_data

\* ------------------------------------------------------------------- C19
\* the statuses after which C19 allows a further attempt
ClaimedRetryStatuses ==
    {"429", "500", "502", "503", "504"}
    \cup (IF fn = "ncr" THEN {} ELSE {"408"})

\* the number of the request of the current chunk that is outstanding
RequestNumber == attempts.n + 1

\* C19: for one chunk the remote endpoint is requested at most 3 times in
\* total; a further attempt is made only after a response with a status of
\* {429, 500, 502, 503, 504} (and 408 in Safety and Housekeeping); and once
\* the 3 requests are used the chunk is not requested again.
C19_AtMostThreeRequests ==
    [][/\ attempts'.n > attempts.n =>
             /\ attempts'.n + 1 <= 3
             /\ attempts'.last \in ClaimedRetryStatuses
       /\ RequestNumber >= 3 => attempts'.n <= attempts.n]_vars

\* ------------------------------------------------------------------- C20
\* the '{' of text[p..q] less its '}'
Depth(text, p, q) ==
    Cardinality({k \in p..q : text[k] = "{"})
    - Cardinality({k \in p..q : text[k] = "}"})

\* the positions after p where the braces opened from p on are all closed
Closings(text, p) == {q \in (p + 1)..Len(text) : Depth(text, p, q) = 0}

\* the '{' of the text that have a matching '}'
Openings(text) ==
    {p \in DOMAIN text : text[p] = "{" /\ Closings(text, p) # {}}

\* the first substring that starts at a '{' and ends at its matching '}',
\* NoJson when the text has no balanced object
FirstBalanced(text) ==
    IF Openings(text) = {} THEN NoJson
    ELSE LET p == MinOf(Openings(text))
         IN  SubSeq(text, p, MinOf(Closings(text, p)))

\* C20: in every report path, response handling extracts from the returned
\* text the first substring that starts at a '{' and ends at its matching
\* '}', whatever prose or code-fence markers are around it, and reports no
\* JSON only when the text contains no balanced object.  In the NCR path,
\* where extracting and parsing are one step, the statement is asked only of
\* the texts whose first balanced object parses.
C20_ExtractsFirstBalancedObject ==
    pc = "scanned" =>
        IF fn = "ncr"
        THEN json_loads_ok(FirstBalanced(generated_text))
                 => json_str = FirstBalanced(generated_text)
        ELSE json_str = FirstBalanced(generated_text)

\* ------------------------------------------------------------------- C21
\* the step handles one chunk by the Local Aggregator alone
LocalStep ==
    /\ Len(handled') = Len(handled) + 1
    /\ handled'[Len(handled')].by = "local"

\* the records of a chunk that belong to a site
OfSite(chunk, site) == {k \in DOMAIN chunk : chunk[k].Tower = site}

\* the records of a chunk of a site that carry a pour label
WithPour(chunk, site, pour) ==
    {k \in OfSite(chunk, site) :
        \E p \in DOMAIN chunk[k].Pours : chunk[k].Pours[p] = pour}

PourLabels(chunk) ==
    UNION {{chunk[k].Pours[p] : p \in DOMAIN chunk[k].Pours} : k \in DOMAIN chunk}

\* a counter of a site's bucket, 0 while the site has no bucket
Counter(res, site, field) ==
    IF site \in DOMAIN res.Sites THEN res.Sites[site][field] ELSE 0

PourCounter(res, site, pour) ==
    IF site \in DOMAIN res.Sites
      THEN Get(res.Sites[site].PoursCount, pour, 0) ELSE 0

\* direct bucketing of a chunk on top of before gives after
DirectBucketing(chunk, before, after) ==
    /\ after.Grand_Total = before.Grand_Total + Len(chunk)
    /\ \A site \in DOMAIN after.Sites \cup {chunk[k].Tower : k \in DOMAIN chunk} :
         /\ SiteTotal(after, site)
              = SiteTotal(before, site) + Cardinality(OfSite(chunk, site))
         /\ fn = "ncr" =>
              /\ \A cat \in {"SW", "FW", "MEP"} :
                   Counter(after, site, cat)
                     = Counter(before, site, cat)
                       + Cardinality({k \in OfSite(chunk, site) :
                                        chunk[k].Discipline_Category = cat})
              /\ \A pour \in PourLabels(chunk) :
                   PourCounter(after, site, pour)
                     = PourCounter(before, site, pour)
                       + Cardinality(WithPour(chunk, site, pour))

\* C21: for any chunk, the Local Aggregator's contribution equals direct
\* bucketing of that chunk: every record adds 1 to the total of its tower and
\* 1 to Grand_Total (in the NCR path also 1 to its discipline-category
\* counter and 1 per pour label to the pour histogram), no record skipped, in
\* the NCR, Safety and Housekeeping fallbacks, Open and Closed.
C21_LocalEqualsDirectBucketing ==
    [][(LocalStep /\ report_type \in {"Open", "Closed"})
         => DirectBucketing(Chunk, all_results, all_results')]_vars


\* ---- C22 ----------------------------------------------------------------
\* the NCR reports a cross-tab was written from, and the cross-tab
CrossTabInput ==
    IF excel = "combined" THEN all_reports.Combined_NCR ELSE all_reports

CrossTab ==
    IF excel = "combined" THEN workbook.ncr.summary ELSE workbook.summary

CrossTabWritten == pc = "reported" /\ excel \in {"OpenClose", "combined"}

CrossTabKeys ==
    DOMAIN sites_of(CrossTabInput.resolved) \cup DOMAIN sites_of(CrossTabInput.open)

\* the sum of a counter of the aggregate over the buckets of one side whose
\* keys normalize to a site
CounterSum(side, site, field) ==
    SumOver([k \in DOMAIN side |-> side[k][field]],
            find_original_keys(excel, CrossTabKeys, site) \cap DOMAIN side)

SideAgrees(shown, side, site) ==
    /\ shown["Structure Works"] = CounterSum(side, site, "SW")
    /\ shown["Civil Finishing"] = CounterSum(side, site, "FW")
    /\ shown["MEP"] = CounterSum(side, site, "MEP")

\* C22: for each standard site of the cross-tab the three displayed category
\* counts equal the sums of the aggregate's SW, FW and MEP counters over the
\* buckets whose keys normalize to the site, and the site's grand total
\* equals the number of records in those buckets.
C22_CrossTabSumsCounters ==
    CrossTabWritten =>
        \A site \in standard_sites(excel) :
            /\ SideAgrees(CrossTab[site].resolved,
                          sites_of(CrossTabInput.resolved), site)
            /\ SideAgrees(CrossTab[site].open,
                          sites_of(CrossTabInput.open), site)
            /\ CrossTab[site].total =
                 CounterSum(sites_of(CrossTabInput.resolved), site, "Total")
                 + CounterSum(sites_of(CrossTabInput.open), site, "Total")


\* ---- C23 ----------------------------------------------------------------
\* one side of the reports without the bucket of a key
SideWithout(payload, key) ==
    IF IsAggregate(payload)
      THEN [payload EXCEPT !.Sites = [k \in DOMAIN @ \ {key} |-> @[k]]]
      ELSE payload

ReportsWithout(key) ==
    [resolved |-> SideWithout(CrossTabInput.resolved, key),
     open |-> SideWithout(CrossTabInput.open, key)]

\* the records the two sides hold under a key
RecordsUnder(key) ==
    Get(sites_of(CrossTabInput.resolved), key, NewSite).Total
    + Get(sites_of(CrossTabInput.open), key, NewSite).Total

CombinedBuckets ==
    {q \in {"4", "5", "6", "7"} \X {"4", "5", "6", "7"} :
        CombinedKey(q[1], q[2]) \in CrossTabKeys}

\* C23: in the cross-tab a bucket keyed Eden-Tower-NN-MM-CommonArea adds
\* each of its records to the total of tower NN and to the total of tower
\* MM, and adds nothing to the Common_Area row.
C23_CombinedBucketCountsForBothTowers ==
    CrossTabWritten =>
        \A q \in CombinedBuckets :
            LET key == CombinedKey(q[1], q[2])
                without == ncr_summary(excel, ReportsWithout(key))
            IN /\ \A n \in {1, 2} :
                    CrossTab[TowerName(excel, q[n])].total =
                        without[TowerName(excel, q[n])].total + RecordsUnder(key)
               /\ CrossTab["Common_Area"] = without["Common_Area"]

C23_Witness ==
    /\ CrossTabWritten
    /\ Get(sites_of(CrossTabInput.resolved), CombinedKey("5", "6"), NewSite).Total = 2
    /\ Get(sites_of(CrossTabInput.open), CombinedKey("5", "6"), NewSite).Total = 1
    /\ CrossTab[TowerName(excel, "5")].total = 3
    /\ CrossTab[TowerName(excel, "6")].total = 3


\* ---- C24 ----------------------------------------------------------------
DetailSheets ==
    IF excel = "combined"
      THEN <<workbook.ncr.closed_details, workbook.ncr.open_details>>
      ELSE <<workbook.closed_details, workbook.open_details>>

DetailInputs ==
    <<sites_of(CrossTabInput.resolved), sites_of(CrossTabInput.open)>>

\* C24: in a detail sheet each record of a bucket keyed
\* Eden-Tower-NN-MM-CommonArea is exactly one row.
C24_OneDetailRowPerRecord ==
    CrossTabWritten =>
        \A s \in {1, 2} : \A t, u \in NumTok :
            LET key == CombinedKey(t, u)
            IN key \in DOMAIN DetailInputs[s] =>
                 \A k \in DOMAIN DetailInputs[s][key].Descriptions :
                    Cardinality({r \in DetailSheets[s] :
                                    r.key = key /\ r.k = k}) = 1


\* ---- C30 ----------------------------------------------------------------
SummaryWritten == pc = "reported" /\ excel \in {"Housekeeping", "Safety"}

\* C30: in the standalone Safety and Housekeeping summaries the count shown
\* for a standard site is the sum of Count over all keys of the aggregate
\* that normalize to the site.
C30_SummarySumsAllKeys ==
    SummaryWritten =>
        \A site \in standard_sites("summary") :
            workbook.summary[site] =
                SumOver([k \in DOMAIN sites_of(all_reports) |->
                            sites_of(all_reports)[k].Count],
                        summary_keys(sites_of(all_reports), site))


\* ---- C25 ----------------------------------------------------------------
HseTagged(tag) == Contains(lower(strip(tag)), Chars_hse)

\* the table with every tag that contains "hse" written as "HSE"
Retagged(d) ==
    IF d.isNone THEN d
    ELSE [d EXCEPT !.rows =
            [k \in DOMAIN @ |->
                IF HseTagged(@[k].Discipline)
                  THEN [@[k] EXCEPT !.Discipline = TagHSE] ELSE @[k]]]

\* no record tagged with "hse" is in the normalized list or in a list of the
\* NCR aggregate, and a table of such records alone leaves the aggregate empty
NcrExcludesHse ==
    (fn = "ncr" /\ report_type \in {"Open", "Closed"}) =>
        /\ \A k \in DOMAIN cleaned_data : ~HseTagged(cleaned_data[k].Discipline)
        /\ \A s \in DOMAIN all_results.Sites :
              \A n \in DOMAIN all_results.Sites[s].Discipline :
                 ~HseTagged(all_results.Sites[s].Discipline[n])
        /\ (~df.isNone /\ \A k \in DOMAIN df.rows : HseTagged(df.rows[k].Discipline))
              => all_results = EmptyResults

\* the Safety and Housekeeping generators keep a record tagged with "hse"
\* whenever they keep the same record tagged "HSE"
HseStaysEligible ==
    (fn \in {"safety", "housekeeping"} /\ pc # "call"
       /\ hs_input_error(fn, df, report_type, start_date, end_date, until_date) = "")
      => cleaned_data = hs_prepare(fn, Retagged(df), report_type, start_date,
                                   end_date, until_date).data

\* C25: no record whose discipline tag contains "hse" contributes to a count
\* or a list of the Open or Closed NCR aggregate, whichever chunks are
\* processed remotely or locally, and the same record remains eligible for
\* the Safety and Housekeeping aggregations.
C25_HseOnlyInSafetyHousekeeping == NcrExcludesHse /\ HseStaysEligible


\* ---- C26 ----------------------------------------------------------------
ListFields == {"Descriptions", "Created", "Close", "Status"}

\* after is before with the buckets of a parsed NCR chunk result merged in
NcrMergedFrom(sites, before, after) ==
    /\ DOMAIN after = DOMAIN before \cup DOMAIN sites
    /\ \A s \in DOMAIN after :
          IF s \notin DOMAIN sites THEN after[s] = before[s]
          ELSE LET b0 == Get(before, s, NewSite)
               IN /\ \A f \in ListFields \cup {"Discipline", "Pours"} :
                        after[s][f] = b0[f] \o sites[s][f]
                  /\ \A f \in {"SW", "FW", "MEP"} :
                        after[s][f] = b0[f] + sites[s][f]
                  /\ DOMAIN after[s].PoursCount =
                        DOMAIN b0.PoursCount \cup DOMAIN sites[s].PoursCount
                  /\ \A p \in DOMAIN after[s].PoursCount :
                        after[s].PoursCount[p] =
                            Get(b0.PoursCount, p, 0) + Get(sites[s].PoursCount, p, 0)

\* the same for a Safety or Housekeeping chunk result
HsMergedFrom(sites, before, after) ==
    /\ DOMAIN after = DOMAIN before \cup DOMAIN sites
    /\ \A s \in DOMAIN after :
          IF s \notin DOMAIN sites THEN after[s] = before[s]
          ELSE LET b0 == Get(before, s, NewCountSite)
               IN /\ \A f \in ListFields : after[s][f] = b0[f] \o sites[s][f]
                  /\ after[s].Count = b0.Count + sites[s].Count

\* C26: merging a parsed chunk result extends each per-site list, the
\* entries present before remaining in order as a prefix, adds the chunk's
\* SW, FW and MEP counters to the existing ones, adds the chunk's pour
\* histogram key by key, and leaves the buckets of sites absent from the
\* chunk result unchanged.
C26_MergeExtendsAndAdds ==
    [][RemoteMergeStep =>
         IF fn = "ncr"
           THEN \E sites \in RemoteSites(Chunk) :
                   NcrMergedFrom(sites, all_results.Sites, all_results'.Sites)
           ELSE \E response \in HsRemoteResponses(fn, Chunk) :
                   HsMergedFrom(response.Sites, all_results.Sites,
                                all_results'.Sites)]_vars

\* two chunks were merged from remote responses into the bucket of one
\* site: the record of the first chunk is before the record of the second
C26_Witness ==
    /\ fn = "ncr" /\ Len(handled) = 2
    /\ handled[1].by = "remote" /\ handled[2].by = "remote"
    /\ \E s \in DOMAIN all_results.Sites :
          Len(all_results.Sites[s].Descriptions) = 2
          /\ all_results.Sites[s].Descriptions[1] = handled[1].chunk[1].Description
          /\ all_results.Sites[s].Descriptions[2] = handled[2].chunk[1].Description


\* ---- C27 ----------------------------------------------------------------
\* the k-th chunk of the normalized list
KthChunk(k) ==
    SubSeq(cleaned_data, (k - 1) * chunk_size + 1,
           IF k * chunk_size < Len(cleaned_data) THEN k * chunk_size
           ELSE Len(cleaned_data))

\* C27: chunks are processed strictly in sequence.  While the loop runs,
\* every chunk before the current one has been handled and no other; a step
\* of the loop that updates the accumulator does so for the current chunk
\* alone, and only the step that handles the current chunk moves the loop to
\* the next one, whose request is sent afterwards; a request that is still
\* being retried leaves the accumulator as it is.
C27_ChunksStrictlySequential ==
    [][pc = "chunks" =>
         /\ i = Len(handled) * chunk_size + 1
         /\ \A k \in DOMAIN handled : handled[k].chunk = KthChunk(k)
         /\ (all_results' # all_results /\ pc' = "chunks") => i' # i
         /\ (i' # i \/ handled' # handled) =>
               /\ handled' = Append(handled, handled'[Len(handled')])
               /\ handled'[Len(handled')].chunk = KthChunk(Len(handled) + 1)
               /\ i' = i + chunk_size
               /\ attempts' = NoAttempt
         /\ attempts'.n > attempts.n =>
               all_results' = all_results /\ i' = i /\ handled' = handled]_vars

\* the second chunk was merged from its remote response after the first was
\* handled by the local fallback, with a request retried in between
C27_Witness ==
    /\ pc = "chunks" /\ chunk_size = 1 /\ Len(cleaned_data) = 2
    /\ Len(handled) = 2
    /\ handled[1].by = "local" /\ handled[2].by = "remote"
    /\ handled[1].chunk = KthChunk(1) /\ handled[2].chunk = KthChunk(2)
    /\ all_results.Grand_Total = 2


\* ---- C28 ----------------------------------------------------------------
\* the step handles one chunk of the NCR loop whose remote response was
\* abandoned part-way through its merge
AbandonedStep ==
    /\ fn = "ncr"
    /\ Len(handled') = Len(handled) + 1
    /\ handled'[Len(handled')].cause = "bad field"

\* C28: in the NCR path merging a chunk is all-or-nothing.  When the
\* handling of a remote response is abandoned part-way, the accumulator
\* holds no contribution of that response when the local fallback runs, so
\* after the step the accumulator is the one before it with the chunk
\* bucketed once.
C28_AbandonedMergeLeavesNothing ==
    [][AbandonedStep =>
         all_results' = process_chunk_locally(Chunk, all_results)]_vars


\* ---- C29 ----------------------------------------------------------------
\* the generator returned an aggregate every chunk of which was processed by
\* the local aggregator
BuiltLocally ==
    /\ pc = "done" /\ IsAggregate(ret) /\ handled # <<>>
    /\ \A k \in DOMAIN handled : handled[k].by = "local"

SiteCount(b) == IF fn = "ncr" THEN b.Total ELSE b.Count

\* the four lists of a bucket have the length of its count, and the entries
\* at each index are the fields of one record of the site
ListsAligned(site, b) ==
    /\ \A f \in ListFields : Len(b[f]) = SiteCount(b)
    /\ \A n \in 1..SiteCount(b) :
          \E k \in DOMAIN cleaned_data :
             /\ cleaned_data[k].Tower = site
             /\ cleaned_data[k].Description = b.Descriptions[n]
             /\ cleaned_data[k].Created = b.Created[n]
             /\ cleaned_data[k].Close = b.Close[n]
             /\ cleaned_data[k].Status = b.Status[n]

\* the NCR half of C29
NcrListsAligned ==
    (BuiltLocally /\ fn = "ncr") =>
        \A site \in DOMAIN ret.Sites : ListsAligned(site, ret.Sites[site])

\* C29: in every final aggregate built by local processing the lists
\* Descriptions, Created Date, Expected Close Date and Status of a site have
\* the same length, the length is the site's count, and their i-th entries
\* come from the same input record; in the NCR path and, after the set
\* conversion, in the Safety and Housekeeping paths.
C29_ListsAlignedWithCount ==
    BuiltLocally =>
        \A site \in DOMAIN ret.Sites : ListsAligned(site, ret.Sites[site])

====
